---- MODULE Spec2Model ----
(***************************************************************************)
(* Local package dependency visualizer: the dependency graph               *)
(* (parser/graph_builder.py), the source parser and the import resolver    *)
(* that feed it (parser/ast_parser.py, parser/import_resolver.py), the     *)
(* cycle detector (cycle_detector.py), the dead-code detector              *)
(* (dead_code_detector.py), the module analyzer (module_analyzer.py), the  *)
(* split suggester (split_suggester.py), the visualizer (visualizer.py)    *)
(* and the dynamic import detector (parser/dynamic_import_detector.py).    *)
(*                                                                         *)
(* Twelve specifications share the variables:                              *)
(*   SpecGraph  any sequence of add_node / add_edge / build_from_parser    *)
(*   SpecBuild  the pipeline parse_directory ; build_from_parser           *)
(*   SpecCycle  CycleDetector over a finished graph                        *)
(*   SpecDead   DeadCodeDetector over a finished graph                     *)
(*   SpecParser ASTParser over a changing tree on disk                     *)
(*   SpecMap    Visualizer.generate_ascii_map over a finished graph        *)
(*   SpecRun    all the diagnostics of cli.py over a finished graph        *)
(*   SpecWidth  generate_ascii_map with the width given by the caller      *)
(*   SpecAnalyzer ModuleAnalyzer and its two sorted lists                  *)
(*   SpecSplit  SplitSuggester.suggest_splits over parsed files            *)
(*   SpecDot    Visualizer.export_graphviz over a finished graph           *)
(*   SpecDyn    DynamicImportDetector over parsed trees                    *)
(***************************************************************************)
EXTENDS Integers, Sequences, FiniteSets, TLC

VARIABLES
    \* GraphBuilder
    nodes, edges, incoming, outgoing, node_metadata,
    \* the project tree on disk and the ASTParser caches
    fs, parsed_files, file_imports, file_exports, file_lines, phase,
    \* CycleDetector
    cycles, visited, recursion_stack, frames, todo, caller, ret, calls, expanded,
    \* DeadCodeDetector
    given, entry_points, reachable, to_visit, unused_modules, unused_exports, dpc,
    \* ModuleAnalyzer, SplitSuggester and the last call made of the parser, a
    \* graph query or the visualizer, with the value it returned
    metrics, suggestions, output,
    \* DynamicImportDetector
    dynamic_imports

graphVars == <<nodes, edges, incoming, outgoing, node_metadata>>
parserVars == <<fs, parsed_files, file_imports, file_exports, file_lines, phase>>
cycleVars == <<cycles, visited, recursion_stack, frames, todo, caller, ret, calls, expanded>>
deadVars == <<given, entry_points, reachable, to_visit, unused_modules, unused_exports, dpc>>
reportVars == <<metrics, suggestions, output, dynamic_imports>>
vars == <<graphVars, parserVars, cycleVars, deadVars, reportVars>>

(***************************************************************************)
(* Python dictionaries are functions; d.get(k, default) and d[k] = v.      *)
(***************************************************************************)
EmptyDict == [k \in {} |-> {}]

Get(d, k, default) == IF k \in DOMAIN d THEN d[k] ELSE default

Put(d, k, v) == [x \in (DOMAIN d) \cup {k} |-> IF x = k THEN v ELSE d[x]]

\* Optional[Dict] arguments: None, or a dictionary
None == <<>>

Some(d) == <<d>>

Truthy(m) == m # None /\ m[1] # EmptyDict

Range(s) == {s[i] : i \in DOMAIN s}

(***************************************************************************)
(* Paths.  In the graph-building specifications a path is the tuple of its *)
(* parts below the project root, the last part being the file's stem       *)
(* (<<"env", "c">> is env/c.py)  .  Path.resolve() drops "." parts and     *)
(* folds "x/..": several spellings name one file.                          *)
(***************************************************************************)
RECURSIVE ResolveParts(_, _)
ResolveParts(parts, acc) ==
    IF parts = <<>> THEN acc
    ELSE LET h == Head(parts) IN
         IF h = "." THEN ResolveParts(Tail(parts), acc)
         ELSE IF h = ".."
              THEN ResolveParts(Tail(parts),
                                IF acc = <<>> THEN acc ELSE SubSeq(acc, 1, Len(acc) - 1))
              ELSE ResolveParts(Tail(parts), Append(acc, h))

_normalize_path_unresolved(file_path) == file_path

_normalize_path(file_path) == ResolveParts(file_path, <<>>)

ProjectFiles == {<<"a">>, <<"b">>, <<"env", "c">>}

\* the spellings handed to add_node and add_edge: two files, two spellings each
RawPaths == {<<"a">>, <<".", "a">>, <<"b">>, <<"env", "..", "b">>}

(***************************************************************************)
(* GraphBuilder.  A graph value g carries the five attributes.             *)
(***************************************************************************)
EmptyGraph ==
    [nodes |-> {}, edges |-> <<>>, incoming |-> EmptyDict, outgoing |-> EmptyDict,
     node_metadata |-> EmptyDict]

TheGraph ==
    [nodes |-> nodes, edges |-> edges, incoming |-> incoming, outgoing |-> outgoing,
     node_metadata |-> node_metadata]

SetGraph(g) ==
    /\ nodes' = g.nodes
    /\ edges' = g.edges
    /\ incoming' = g.incoming
    /\ outgoing' = g.outgoing
    /\ node_metadata' = g.node_metadata

add_node(g, file_path, metadata) ==
    LET normalized == _normalize_path(file_path) IN
    [g EXCEPT !.nodes = @ \cup {normalized},
              !.node_metadata =
                  IF Truthy(metadata) THEN Put(@, normalized, metadata[1])
                  ELSE IF normalized \notin DOMAIN @ THEN Put(@, normalized, EmptyDict)
                  ELSE @]

add_edge_no_implicit_nodes(g, from_file, to_file, metadata) ==
    LET from_normalized == _normalize_path(from_file)
        to_normalized == _normalize_path(to_file)
        edge_metadata == IF Truthy(metadata) THEN metadata[1] ELSE EmptyDict
    IN  [g EXCEPT !.edges = Append(@, <<from_normalized, to_normalized, edge_metadata>>),
                  !.incoming = Put(@, to_normalized,
                                   Get(@, to_normalized, {}) \cup {from_normalized}),
                  !.outgoing = Put(@, from_normalized,
                                   Get(@, from_normalized, {}) \cup {to_normalized})]

add_edge_incoming_swapped(g, from_file, to_file, metadata) ==
    LET from_normalized == _normalize_path(from_file)
        to_normalized == _normalize_path(to_file)
        g1 == IF from_normalized \notin g.nodes THEN add_node(g, from_normalized, None) ELSE g
        g2 == IF to_normalized \notin g1.nodes THEN add_node(g1, to_normalized, None) ELSE g1
        edge_metadata == IF Truthy(metadata) THEN metadata[1] ELSE EmptyDict
    IN  [g2 EXCEPT !.edges = Append(@, <<from_normalized, to_normalized, edge_metadata>>),
                   !.incoming = Put(@, from_normalized,
                                    Get(@, from_normalized, {}) \cup {to_normalized}),
                   !.outgoing = Put(@, from_normalized,
                                    Get(@, from_normalized, {}) \cup {to_normalized})]

add_edge(g, from_file, to_file, metadata) ==
    LET from_normalized == _normalize_path(from_file)
        to_normalized == _normalize_path(to_file)
        g1 == IF from_normalized \notin g.nodes THEN add_node(g, from_normalized, None) ELSE g
        g2 == IF to_normalized \notin g1.nodes THEN add_node(g1, to_normalized, None) ELSE g1
        edge_metadata == IF Truthy(metadata) THEN metadata[1] ELSE EmptyDict
    IN  [g2 EXCEPT !.edges = Append(@, <<from_normalized, to_normalized, edge_metadata>>),
                   !.incoming = Put(@, to_normalized,
                                    Get(@, to_normalized, {}) \cup {from_normalized}),
                   !.outgoing = Put(@, from_normalized,
                                    Get(@, from_normalized, {}) \cup {to_normalized})]

get_dependencies(g, file_path) == Get(g.outgoing, _normalize_path(file_path), {})

get_dependents(g, file_path) == Get(g.incoming, _normalize_path(file_path), {})

get_all_nodes(g) == g.nodes

\* What a read leaves of the dictionary it reads.  incoming and outgoing are
\* defaultdicts: d[key] would insert an empty set for a missing key, while
\* d.get(key, default), which every query uses, inserts nothing.
dict_subscript(d, key) == IF key \in DOMAIN d THEN d ELSE Put(d, key, {})

dict_get(d, key) == d

RECURSIVE GetEach(_, _)
GetEach(d, keys) ==
    IF keys = {} THEN d
    ELSE LET key == CHOOSE k \in keys : TRUE IN GetEach(dict_get(d, key), keys \ {key})

\* the graph after get_dependencies was called for each of out_keys,
\* get_dependents for each of in_keys and get_metadata for each of meta_keys
Queried(g, out_keys, in_keys, meta_keys) ==
    [g EXCEPT !.outgoing = GetEach(@, out_keys),
              !.incoming = GetEach(@, in_keys),
              !.node_metadata = GetEach(@, meta_keys)]

\* the keys get_isolated_nodes looks up in outgoing: `and` reads it only for
\* a node without dependents
IsolatedOutKeys(g) == {node \in g.nodes : Get(g.incoming, node, {}) = {}}

get_isolated_nodes(g) ==
    {node \in g.nodes : Get(g.incoming, node, {}) = {} /\ Get(g.outgoing, node, {}) = {}}

get_leaf_nodes(g) == {node \in g.nodes : Get(g.outgoing, node, {}) = {}}

get_root_nodes(g) == {node \in g.nodes : Get(g.incoming, node, {}) = {}}

(***************************************************************************)
(* The project on disk.  fs maps each existing file to its content: a      *)
(* status and, line by line, its statements.  Dotted names are kept as the *)
(* list str.split('.') gives: "env.c" is <<"env", "c">>, "" is <<"">>      *)
(* and ".x" is <<"", "x">>.                                                *)
(***************************************************************************)
MaxImports == 1

ImportStmt(name) == [kind |-> "import", name |-> name]

FromStmt(module, alias) == [kind |-> "from", module |-> module, alias |-> alias]

\* import b; import env.c; import os; from b import x; from . import b
Stmts ==
    {ImportStmt(<<"b">>), ImportStmt(<<"env", "c">>), ImportStmt(<<"os">>),
     FromStmt(<<"b">>, "x"), FromStmt(<<"">>, "b")}

RECURSIVE SeqsUpTo(_, _)
SeqsUpTo(S, n) ==
    IF n = 0 THEN {<<>>}
    ELSE LET shorter == SeqsUpTo(S, n - 1) IN
         shorter \cup {Append(s, x) : s \in shorter, x \in S}

Contents ==
    {[status |-> "syntax_error", stmts |-> <<>>]}
        \cup {[status |-> "ok", stmts |-> ss] : ss \in SeqsUpTo(Stmts, MaxImports)}

Projects ==
    UNION {[files -> Contents] : files \in SUBSET ProjectFiles}

Dir(file) == SubSeq(file, 1, Len(file) - 1)

Stem(file) == file[Len(file)]

IsPrefix(s, t) == Len(s) <= Len(t) /\ SubSeq(t, 1, Len(s)) = s

(***************************************************************************)
(* ASTParser.  parsed_files is the dictionary in insertion order: a        *)
(* sequence of [file, tree]; the tree is the statement list.               *)
(***************************************************************************)
EmptyParser ==
    [parsed_files |-> <<>>, file_imports |-> EmptyDict, file_exports |-> EmptyDict,
     file_lines |-> EmptyDict]

TheParser ==
    [parsed_files |-> parsed_files, file_imports |-> file_imports,
     file_exports |-> file_exports, file_lines |-> file_lines]

SetParser(p) ==
    /\ parsed_files' = p.parsed_files
    /\ file_imports' = p.file_imports
    /\ file_exports' = p.file_exports
    /\ file_lines' = p.file_lines

RECURSIVE _extract_imports(_, _)
_extract_imports(tree, lineno) ==
    IF tree = <<>> THEN <<>>
    ELSE LET node == Head(tree)
             here ==
                 IF node.kind = "import" THEN <<<<node.name, lineno, "import">>>>
                 ELSE IF node.kind = "from"
                      THEN <<<<node.module, lineno, "from_import">>,
                             <<Append(node.module, node.alias), lineno, "from_import">>>>
                      ELSE <<>>
         IN  here \o _extract_imports(Tail(tree), lineno + 1)

_extract_exports(tree) ==
    {tree[i].name : i \in {j \in DOMAIN tree : tree[j].kind = "def" /\ ~tree[j].private}}

\* dictionary store into the insertion-ordered parsed_files
StoreTree(pf, file, tree) ==
    IF \E i \in DOMAIN pf : pf[i].file = file
    THEN [i \in DOMAIN pf |-> IF pf[i].file = file THEN [file |-> file, tree |-> tree]
                                                   ELSE pf[i]]
    ELSE Append(pf, [file |-> file, tree |-> tree])

\* line 38 tests a Path object against the dictionary's str keys
CachedKey(p, file_path) ==
    <<"Path", file_path>> \in {<<"str", p.parsed_files[i].file>> : i \in DOMAIN p.parsed_files}

\* the caches written before the file is read
parse_file_storing_first(p, disk, file_path) ==
    LET file == _normalize_path(file_path)
        tree == IF file \in DOMAIN disk THEN disk[file].stmts ELSE <<>>
    IN  [parsed_files |-> StoreTree(p.parsed_files, file, tree),
         file_imports |-> Put(p.file_imports, file, _extract_imports(tree, 1)),
         file_exports |-> Put(p.file_exports, file, _extract_exports(tree)),
         file_lines |-> Put(p.file_lines, file, Len(tree))]

\* the parser after parse_file(file_path) on the tree disk; Parsed tells
\* whether a tree was returned
parse_file(p, disk, file_path) ==
    LET file == _normalize_path(file_path) IN
    IF CachedKey(p, file) THEN p
    ELSE IF file \notin DOMAIN disk \/ disk[file].status # "ok" THEN p
    ELSE LET tree == disk[file].stmts IN
         [parsed_files |-> StoreTree(p.parsed_files, file, tree),
          file_imports |-> Put(p.file_imports, file, _extract_imports(tree, 1)),
          file_exports |-> Put(p.file_exports, file, _extract_exports(tree)),
          file_lines |-> Put(p.file_lines, file, Len(tree))]

\* what parse_file returns: the cached tree, the new tree, or None
parse_file_value(p, disk, file_path) ==
    LET file == _normalize_path(file_path) IN
    IF CachedKey(p, file)
    THEN Some((CHOOSE e \in Range(p.parsed_files) : e.file = file).tree)
    ELSE IF file \notin DOMAIN disk \/ disk[file].status # "ok" THEN None
    ELSE Some(disk[file].stmts)

Parsed(p, disk, file_path) ==
    LET file == _normalize_path(file_path) IN
    \/ CachedKey(p, file)
    \/ file \in DOMAIN disk /\ disk[file].status = "ok"

\* os.walk prunes a directory whose name is excluded, with all below it
Walked(disk, exclude_dirs) ==
    {f \in DOMAIN disk : \A i \in 1..(Len(f) - 1) : f[i] \notin exclude_dirs}

\* top-down walk: a directory's files come before those of its subdirectories
WalkOrders(files) ==
    {order \in [1..Cardinality(files) -> files] :
        /\ \A f \in files : \E i \in DOMAIN order : order[i] = f
        /\ \A i, j \in DOMAIN order :
               (IsPrefix(Dir(order[i]), Dir(order[j])) /\ Dir(order[i]) # Dir(order[j]))
                   => i < j}

RECURSIVE ParseAll(_, _, _)
ParseAll(p, disk, order) ==
    IF order = <<>> THEN p
    ELSE ParseAll(parse_file(p, disk, Head(order)), disk, Tail(order))

SelectSeq2(order, keep) == SelectSeq(order, LAMBDA f : f \in keep)

\* order is the order in which the operating system lists the tree
parse_directory_ignoring_excludes(p, disk, exclude_dirs, order) == ParseAll(p, disk, order)

parse_directory(p, disk, exclude_dirs, order) ==
    ParseAll(p, disk, SelectSeq2(order, Walked(disk, exclude_dirs)))

\* lines 105-117: count is incremented for each parse_file that returns a tree
RECURSIVE CountParsed(_, _, _)
CountParsed(p, disk, order) ==
    IF order = <<>> THEN 0
    ELSE (IF parse_file_value(p, disk, Head(order)) # None THEN 1 ELSE 0)
             + CountParsed(parse_file(p, disk, Head(order)), disk, Tail(order))

parse_directory_count(p, disk, exclude_dirs, order) ==
    CountParsed(p, disk, SelectSeq2(order, Walked(disk, exclude_dirs)))

get_all_files(p) == [i \in DOMAIN p.parsed_files |-> p.parsed_files[i].file]

get_imports(p, file_path) == Get(p.file_imports, file_path, <<>>)

get_exports(p, file_path) == Get(p.file_exports, file_path, {})

get_line_count(p, file_path) == Get(p.file_lines, file_path, 0)

(***************************************************************************)
(* ImportResolver.  A resolver value r carries project_root's tree (the    *)
(* files path.exists() sees) and the two maps built on construction.       *)
(***************************************************************************)
ModuleName(file) ==
    LET module_parts == Dir(file) IN
    IF Stem(file) = "__init__"
    THEN (IF module_parts = <<>> THEN <<"">> ELSE module_parts)
    ELSE Append(module_parts, Stem(file))

InPycache(file) == \E i \in DOMAIN file : file[i] = "__pycache__"

_build_module_map(disk) ==
    LET mapped == {f \in DOMAIN disk : ~InPycache(f)} IN
    [disk |-> disk,
     module_to_file |-> [m \in {ModuleName(f) : f \in mapped} |->
                             CHOOSE f \in mapped : ModuleName(f) = m],
     file_to_module |-> [f \in mapped |-> ModuleName(f)]]

\* only the files the parser parsed
_build_module_map_parsed_only(disk) ==
    LET mapped == {f \in DOMAIN disk : ~InPycache(f) /\ disk[f].status = "ok"} IN
    [disk |-> disk,
     module_to_file |-> [m \in {ModuleName(f) : f \in mapped} |->
                             CHOOSE f \in mapped : ModuleName(f) = m],
     file_to_module |-> [f \in mapped |-> ModuleName(f)]]

StartsWithDot(import_name) == Len(import_name) >= 2 /\ import_name[1] = ""

\* the number of leading '.' characters of the dotted name
LeadingDots(import_name) ==
    IF \A i \in DOMAIN import_name : import_name[i] = ""
    THEN Len(import_name) - 1
    ELSE (CHOOSE i \in DOMAIN import_name :
              import_name[i] # "" /\ \A j \in 1..(i - 1) : import_name[j] = "") - 1

\* '.'.join(parts) as a split list: the empty string splits to <<"">>
Joined(parts) == IF parts = <<>> THEN <<"">> ELSE parts

\* the longest prefix parts[:i], i = len..1, that is a module; None when none is
LongestModulePrefix(r, parts) ==
    LET hits == {i \in 1..Len(parts) : SubSeq(parts, 1, i) \in DOMAIN r.module_to_file} IN
    IF hits = {} THEN None
    ELSE r.module_to_file[SubSeq(parts, 1, CHOOSE i \in hits : \A j \in hits : j <= i)]

\* from_dir, then from_dir and each ancestor up to the project root
ProbeDirs(from_dir) ==
    <<from_dir>> \o [k \in 1..(Len(from_dir) + 1) |->
                         SubSeq(from_dir, 1, Len(from_dir) + 1 - k)]

RECURSIVE Probe(_, _, _)
Probe(r, dirs, import_name) ==
    IF dirs = <<>> \/ Len(import_name) # 1 THEN None
    ELSE LET asFile == Append(Head(dirs), import_name[1])
             \* dir / "" / "__init__.py" is dir / "__init__.py"
             asPackage == IF import_name[1] = "" THEN Append(Head(dirs), "__init__")
                          ELSE Head(dirs) \o <<import_name[1], "__init__">>
         IN  IF asFile \in DOMAIN r.disk THEN asFile
             ELSE IF asPackage \in DOMAIN r.disk THEN asPackage
             ELSE Probe(r, Tail(dirs), import_name)

resolve_import(r, import_name, from_file) ==
    LET from_file_path == _normalize_path(from_file)
        from_dir == Dir(from_file_path)
    IN  IF StartsWithDot(import_name)
        THEN LET base_module == Get(r.file_to_module, from_file_path, <<"">>)
                 dots == LeadingDots(import_name)
                 kept == IF dots > 0
                         THEN SubSeq(base_module, 1, Len(base_module) - dots)
                         ELSE base_module
                 remaining == SubSeq(import_name, dots + 1, Len(import_name))
                 module_parts == IF remaining # <<"">> /\ remaining # <<>>
                                 THEN kept \o remaining ELSE kept
             IN  IF base_module = <<"">> THEN None
                 ELSE Get(r.module_to_file, Joined(module_parts), None)
        ELSE IF import_name \in DOMAIN r.module_to_file
             THEN r.module_to_file[import_name]
             ELSE IF LongestModulePrefix(r, import_name) # None
                  THEN LongestModulePrefix(r, import_name)
                  ELSE Probe(r, ProbeDirs(from_dir), import_name)

\* the members of the hardcoded set that name a directory or a module here
stdlib_modules == {"os", "sys", "venv", "test"}

is_external_import(r, import_name) ==
    LET base_module == import_name[1] IN
    IF base_module \in stdlib_modules THEN TRUE
    ELSE resolve_import(r, import_name, <<"__init__">>) = None

(***************************************************************************)
(* GraphBuilder.build_from_parser: a fold over the parsed files and, for   *)
(* each, over its import references.                                       *)
(***************************************************************************)
NodeMetadata(p, file_path) ==
    [line_count |-> get_line_count(p, file_path),
     exports |-> get_exports(p, file_path),
     export_count |-> Cardinality(get_exports(p, file_path))]

EdgeMetadata(ref) == [line |-> ref[2], import_type |-> ref[3], import_name |-> ref[1]]

RECURSIVE AddImports(_, _, _, _)
AddImports(g, r, file_path, refs) ==
    IF refs = <<>> THEN g
    ELSE LET ref == Head(refs)
             resolved == resolve_import(r, ref[1], file_path)
             g1 == IF resolved # None /\ ~is_external_import(r, ref[1])
                   THEN add_edge(g, file_path, resolved, Some(EdgeMetadata(ref)))
                   ELSE g
         IN  AddImports(g1, r, file_path, Tail(refs))

RECURSIVE BuildFiles(_, _, _, _)
BuildFiles(g, p, r, files) ==
    IF files = <<>> THEN g
    ELSE LET file_path == Head(files)
             g1 == add_node(g, file_path, Some(NodeMetadata(p, file_path)))
         IN  BuildFiles(AddImports(g1, r, file_path, get_imports(p, file_path)),
                        p, r, Tail(files))

build_from_parser(g, p, r) == BuildFiles(g, p, r, get_all_files(p))

(***************************************************************************)
(* Values of the variables a specification does not use.                   *)
(***************************************************************************)
IdleGraph ==
    /\ nodes = {} /\ edges = <<>> /\ incoming = EmptyDict /\ outgoing = EmptyDict
    /\ node_metadata = EmptyDict

IdleParser ==
    /\ fs = EmptyDict /\ parsed_files = <<>> /\ file_imports = EmptyDict
    /\ file_exports = EmptyDict /\ file_lines = EmptyDict /\ phase = "none"

IdleCycle ==
    /\ cycles = <<>> /\ visited = {} /\ recursion_stack = {} /\ frames = <<>>
    /\ todo = {} /\ caller = "none" /\ ret = None /\ calls = 0 /\ expanded = <<>>

IdleDead ==
    /\ given = None /\ entry_points = <<>> /\ reachable = {} /\ to_visit = <<>> /\ unused_modules = {}
    /\ unused_exports = EmptyDict /\ dpc = "none"

IdleReport ==
    metrics = EmptyDict /\ suggestions = EmptyDict /\ output = None /\ dynamic_imports = EmptyDict

(***************************************************************************)
(* SpecGraph: a GraphBuilder driven by any sequence of calls.              *)
(***************************************************************************)
MaxEdges == 2

NodeMetaInputs == {None, Some(EmptyDict), Some([line_count |-> 1])}

EdgeMetaInputs == {None, Some([line |-> 1])}

ExcludeInputs == {{}, {"env"}}

InitGraph == IdleGraph /\ IdleParser /\ IdleCycle /\ IdleDead /\ IdleReport

AddNode ==
    /\ \E file_path \in RawPaths, metadata \in NodeMetaInputs :
           SetGraph(add_node(TheGraph, file_path, metadata))
    /\ UNCHANGED <<parserVars, cycleVars, deadVars, reportVars>>

AddEdge ==
    /\ Len(edges) < MaxEdges
    /\ \E from_file \in RawPaths, to_file \in RawPaths, metadata \in EdgeMetaInputs :
           SetGraph(add_edge(TheGraph, from_file, to_file, metadata))
    /\ UNCHANGED <<parserVars, cycleVars, deadVars, reportVars>>

\* build_from_parser(parser, resolver) on a fresh builder, as cli.py calls it:
\* the parser and the resolver are arguments, here those of any project
BuildFromParserCall ==
    /\ nodes = {}
    /\ \E disk \in Projects, exclude_dirs \in ExcludeInputs :
         \E order \in WalkOrders(DOMAIN disk) :
           LET p == parse_directory(EmptyParser, disk, exclude_dirs, order)
               g == build_from_parser(TheGraph, p, _build_module_map(disk))
           IN  Len(g.edges) <= MaxEdges /\ SetGraph(g)
    /\ UNCHANGED <<parserVars, cycleVars, deadVars, reportVars>>

NextGraph == AddNode \/ AddEdge \/ BuildFromParserCall

SpecGraph == InitGraph /\ [][NextGraph]_vars

(***************************************************************************)
(* SpecBuild: the pipeline of cli.py over a project tree.                  *)
(***************************************************************************)
InitBuild ==
    /\ fs \in Projects
    /\ parsed_files = <<>> /\ file_imports = EmptyDict /\ file_exports = EmptyDict
    /\ file_lines = EmptyDict /\ phase = "start"
    /\ IdleGraph /\ IdleCycle /\ IdleDead /\ IdleReport

ParseDirectory ==
    /\ phase = "start"
    /\ \E exclude_dirs \in ExcludeInputs, order \in WalkOrders(DOMAIN fs) :
           SetParser(parse_directory(TheParser, fs, exclude_dirs, order))
    /\ phase' = "parsed"
    /\ UNCHANGED <<fs, graphVars, cycleVars, deadVars, reportVars>>

BuildFromParser ==
    /\ phase = "parsed"
    /\ SetGraph(build_from_parser(TheGraph, TheParser, _build_module_map(fs)))
    /\ phase' = "built"
    /\ UNCHANGED <<fs, parsed_files, file_imports, file_exports, file_lines,
                   cycleVars, deadVars, reportVars>>

NextBuild == ParseDirectory \/ BuildFromParser

SpecBuild == InitBuild /\ [][NextBuild]_vars

(***************************************************************************)
(* SpecParser: one ASTParser over a tree that changes between its calls.  *)
(* Files are written and removed by the user; parse_file and               *)
(* parse_directory are called at any time, and output records the call     *)
(* and what it returned.                                                   *)
(***************************************************************************)
ParserFiles == {<<"a">>, <<"env", "c">>}

\* the paths parse_file is called with: a.py twice spelled, env/c.py, and
\* b.py, which never exists
ParserPaths == {<<"a">>, <<".", "a">>, <<"env", "c">>, <<"b">>}

DefStmt(name, private) == [kind |-> "def", name |-> name, private |-> private]

ParserContents ==
    {[status |-> "syntax_error", stmts |-> <<>>],
     [status |-> "undecodable", stmts |-> <<>>],
     [status |-> "ok", stmts |-> <<ImportStmt(<<"os">>)>>],
     [status |-> "ok", stmts |-> <<DefStmt("f", FALSE), DefStmt("_g", TRUE)>>]}

InitParser ==
    /\ fs \in UNION {[files -> ParserContents] : files \in SUBSET ParserFiles}
    /\ parsed_files = <<>> /\ file_imports = EmptyDict /\ file_exports = EmptyDict
    /\ file_lines = EmptyDict /\ phase = "none"
    /\ IdleGraph /\ IdleCycle /\ IdleDead /\ IdleReport

WriteFile ==
    /\ \E file \in ParserFiles, content \in ParserContents : fs' = Put(fs, file, content)
    /\ UNCHANGED <<parsed_files, file_imports, file_exports, file_lines, phase,
                   graphVars, cycleVars, deadVars, reportVars>>

RemoveFile ==
    /\ \E file \in DOMAIN fs : fs' = [f \in (DOMAIN fs) \ {file} |-> fs[f]]
    /\ UNCHANGED <<parsed_files, file_imports, file_exports, file_lines, phase,
                   graphVars, cycleVars, deadVars, reportVars>>

ParseFile ==
    /\ \E file_path \in ParserPaths :
           /\ SetParser(parse_file(TheParser, fs, file_path))
           /\ output' = [method |-> "parse_file", file_path |-> file_path,
                         value |-> parse_file_value(TheParser, fs, file_path)]
    /\ UNCHANGED <<dynamic_imports, fs, phase, metrics, suggestions, graphVars, cycleVars, deadVars>>

ParseDirectoryCall ==
    /\ \E exclude_dirs \in ExcludeInputs, order \in WalkOrders(DOMAIN fs) :
           /\ SetParser(parse_directory(TheParser, fs, exclude_dirs, order))
           /\ output' = [method |-> "parse_directory", exclude_dirs |-> exclude_dirs,
                         value |-> parse_directory_count(TheParser, fs, exclude_dirs, order)]
    /\ UNCHANGED <<dynamic_imports, fs, phase, metrics, suggestions, graphVars, cycleVars, deadVars>>

NextParser == WriteFile \/ RemoveFile \/ ParseFile \/ ParseDirectoryCall

SpecParser == InitParser /\ [][NextParser]_vars

(***************************************************************************)
(* Finished graphs for the analyses: any node set among the first MaxNodes *)
(* paths of NodePaths (listed in lexicographic order) and any set of at    *)
(* most MaxGraphEdges edges between them, self-imports included, entered   *)
(* through add_node and add_edge.                                          *)
(***************************************************************************)
MaxNodes == 3

MaxGraphEdges == 4

NodePaths == <<<<"a">>, <<"b">>, <<"c">>, <<"d">>, <<"e">>>>

AnalysisNodes == {NodePaths[i] : i \in 1..MaxNodes}

Rank(node) == CHOOSE i \in DOMAIN NodePaths : NodePaths[i] = node

\* str comparison of two paths
PathLess(x, y) == Rank(x) < Rank(y)

RECURSIVE AddNodes(_, _)
AddNodes(g, V) ==
    IF V = {} THEN g
    ELSE LET v == CHOOSE x \in V : TRUE IN AddNodes(add_node(g, v, None), V \ {v})

RECURSIVE AddEdges(_, _)
AddEdges(g, E) ==
    IF E = {} THEN g
    ELSE LET e == CHOOSE x \in E : TRUE IN AddEdges(add_edge(g, e[1], e[2], None), E \ {e})

GraphsOver(N, maxEdges) ==
    {AddEdges(AddNodes(EmptyGraph, V), E) :
        <<V, E>> \in {<<V, E>> \in (SUBSET N) \X (SUBSET (N \X N)) :
                         E \subseteq V \X V /\ Cardinality(E) <= maxEdges}}

AnalysisGraphs == GraphsOver(AnalysisNodes, MaxGraphEdges)

InitGraphFrom(graphs) ==
    \E g \in graphs :
        /\ nodes = g.nodes
        /\ edges = g.edges
        /\ incoming = g.incoming
        /\ outgoing = g.outgoing
        /\ node_metadata = g.node_metadata

InitAnalysisGraph == InitGraphFrom(AnalysisGraphs)

(***************************************************************************)
(* CycleDetector.  caller is "detect_cycles" while detect_cycles runs (for  *)
(* the user or for a query that found nothing recorded), "none" when the   *)
(* detector is idle and "crashed" when an exception left _dfs.  todo is    *)
(* what is left of detect_cycles' loop over get_all_nodes(); frames is the *)
(* stack of _dfs activations, each with its node, its own path list and    *)
(* the neighbours its loop has not reached yet.  Sets are iterated in any  *)
(* order.  calls counts the _dfs calls of the run and expanded[n] how      *)
(* often n went past both early returns.                                   *)
(***************************************************************************)
Frame(node, path, pending) == [node |-> node, path |-> path, pending |-> pending]

\* path.index(node)
IndexOf(path, node) == CHOOSE i \in DOMAIN path : path[i] = node /\ \A j \in 1..(i - 1) : path[j] # node

\* min(range(len(cycle)), key=lambda i: cycle[i]): the first least element
MinIdx(cycle) ==
    CHOOSE i \in DOMAIN cycle :
        /\ \A j \in DOMAIN cycle : ~PathLess(cycle[j], cycle[i])
        /\ \A j \in 1..(i - 1) : PathLess(cycle[i], cycle[j])

\* lines 53-58: the loop closed with the node, rotated at the least node
ClosedCycle(path, node) == SubSeq(path, IndexOf(path, node), Len(path)) \o <<node>>

Rotated(cycle) ==
    SubSeq(cycle, MinIdx(cycle), Len(cycle)) \o SubSeq(cycle, 1, MinIdx(cycle) - 1)

NormalizedCycle_open(path, node) == Rotated(SubSeq(path, IndexOf(path, node), Len(path)))

NormalizedCycle(path, node) == Rotated(ClosedCycle(path, node))

\* tuple(sorted(set(cycle)))
Signature(cycle) == Range(cycle)

\* lines 59-63
Registered(cs, cycle) ==
    IF Signature(cycle) \notin {Signature(cs[i]) : i \in DOMAIN cs} THEN Append(cs, cycle) ELSE cs

Detector ==
    [cycles |-> cycles, visited |-> visited, recursion_stack |-> recursion_stack,
     frames |-> frames, caller |-> caller, calls |-> calls, expanded |-> expanded]

SetDetector(d) ==
    /\ cycles' = d.cycles
    /\ visited' = d.visited
    /\ recursion_stack' = d.recursion_stack
    /\ frames' = d.frames
    /\ caller' = d.caller
    /\ calls' = d.calls
    /\ expanded' = d.expanded

\* lines 32-35 of detect_cycles, entered by method
Reset(method) ==
    [cycles |-> <<>>, visited |-> {}, recursion_stack |-> {}, frames |-> <<>>,
     caller |-> method, calls |-> 0, expanded |-> [n \in nodes |-> 0]]

Expand(d, node, path) ==
    [d EXCEPT !.visited = @ \cup {node},
              !.recursion_stack = @ \cup {node},
              !.frames = Append(@, Frame(node, Append(path, node),
                                         get_dependencies(TheGraph, node))),
              !.expanded[node] = @ + 1]

\* _dfs without the test of line 59 and without the early return of line 65
_dfs_unguarded(d, node, path) ==
    LET d0 == [d EXCEPT !.calls = @ + 1] IN
    IF node \in d.recursion_stack
    THEN (IF node \in Range(path)
          THEN [d0 EXCEPT !.cycles = Append(@, NormalizedCycle(path, node))]
          ELSE [d0 EXCEPT !.caller = "crashed"])
    ELSE Expand(d0, node, path)

\* _dfs with the two early returns in the opposite order
_dfs_visited_first(d, node, path) ==
    LET d0 == [d EXCEPT !.calls = @ + 1] IN
    IF node \in d.visited THEN d0 ELSE Expand(d0, node, path)

\* _dfs that does not mark the node visited
_dfs_unmarked(d, node, path) ==
    LET d0 == [d EXCEPT !.calls = @ + 1] IN
    IF node \in d.recursion_stack
    THEN (IF node \in Range(path)
          THEN [d0 EXCEPT !.cycles = Registered(@, NormalizedCycle(path, node))]
          ELSE [d0 EXCEPT !.caller = "crashed"])
    ELSE IF node \in d.visited THEN d0
    ELSE [Expand(d0, node, path) EXCEPT !.visited = d.visited]

\* one call _dfs(node, path), up to its first recursive call or its return:
\* a loop is registered, or the node is skipped, or it is expanded (its
\* activation is pushed with all its neighbours pending).  path.index raises
\* ValueError when the node is on the recursion stack but not on the path.
_dfs(d, node, path) ==
    LET d0 == [d EXCEPT !.calls = @ + 1] IN
    IF node \in d.recursion_stack
    THEN (IF node \in Range(path)
          THEN [d0 EXCEPT !.cycles = Registered(@, NormalizedCycle(path, node))]
          ELSE [d0 EXCEPT !.caller = "crashed"])
    ELSE IF node \in d.visited THEN d0
    ELSE Expand(d0, node, path)

\* line 73 is reached, and get_dependencies(node) called, when the node is
\* neither on the recursion stack nor visited
QueriedByDfs(g, d, node) ==
    Queried(g, IF node \in d.recursion_stack \cup d.visited THEN {} ELSE {node}, {}, {})

\* lines 76-77: the innermost activation returns
_dfs_return_keeps_stack(d) == [d EXCEPT !.frames = SubSeq(@, 1, Len(@) - 1)]

_dfs_return(d) ==
    [d EXCEPT !.recursion_stack = @ \ {d.frames[Len(d.frames)].node},
              !.frames = SubSeq(@, 1, Len(@) - 1)]

Answer(method, cs) ==
    IF method = "has_cycles" THEN Len(cs) > 0
    ELSE IF method = "get_cycle_count" THEN Len(cs)
    ELSE cs

Running == caller \notin {"none", "crashed"}

InitCycle ==
    /\ InitAnalysisGraph
    /\ IdleParser /\ IdleDead /\ IdleReport
    /\ cycles = <<>> /\ visited = {} /\ recursion_stack = {} /\ frames = <<>>
    /\ todo = {} /\ caller = "none" /\ ret = None /\ calls = 0
    /\ expanded = [n \in nodes |-> 0]

DetectCycles ==
    /\ caller = "none"
    /\ SetDetector(Reset("detect_cycles"))
    /\ todo' = get_all_nodes(TheGraph)
    /\ ret' = None
    /\ UNCHANGED <<graphVars, parserVars, deadVars, reportVars>>

\* has_cycles, get_cycle_count, get_cycles: when nothing is recorded they call
\* detect_cycles first and answer when it has returned (Finish); otherwise they
\* answer at once
Queries == {"has_cycles", "get_cycle_count", "get_cycles"}

Query ==
    /\ caller = "none"
    /\ IF cycles = <<>>
       THEN /\ SetDetector(Reset("detect_cycles"))
            /\ todo' = get_all_nodes(TheGraph)
            /\ ret' = None
       ELSE /\ \E method \in Queries :
                   ret' = [method |-> method, value |-> Answer(method, cycles)]
            /\ UNCHANGED <<cycles, visited, recursion_stack, frames, todo, caller,
                           calls, expanded>>
    /\ UNCHANGED <<graphVars, parserVars, deadVars, reportVars>>

\* detect_cycles, lines 37-39: the next node of the loop over get_all_nodes()
ForEachNode ==
    /\ Running /\ frames = <<>> /\ todo # {}
    /\ \E node \in todo :
           /\ todo' = todo \ {node}
           /\ IF node \notin visited
              THEN /\ SetDetector(_dfs(Detector, node, <<>>))
                   /\ SetGraph(QueriedByDfs(TheGraph, Detector, node))
              ELSE UNCHANGED <<cycles, visited, recursion_stack, frames, caller, calls,
                               expanded, graphVars>>
    /\ UNCHANGED <<ret, parserVars, deadVars, reportVars>>

\* _dfs, lines 73-74: the next neighbour of the innermost activation, called
\* with a copy of that activation's path
VisitNeighbor ==
    /\ Running /\ frames # <<>>
    /\ frames[Len(frames)].pending # {}
    /\ \E neighbor \in frames[Len(frames)].pending :
           /\ SetDetector(_dfs([Detector EXCEPT !.frames[Len(frames)].pending = @ \ {neighbor}],
                               neighbor, frames[Len(frames)].path))
           /\ SetGraph(QueriedByDfs(TheGraph, Detector, neighbor))
    /\ UNCHANGED <<todo, ret, parserVars, deadVars, reportVars>>

DfsReturn ==
    /\ Running /\ frames # <<>>
    /\ frames[Len(frames)].pending = {}
    /\ SetDetector(_dfs_return(Detector))
    /\ UNCHANGED <<todo, ret, graphVars, parserVars, deadVars, reportVars>>

\* the loop of detect_cycles is over: line 41, and the return of the query that
\* called it, if one did (the run is the same whoever called it)
Finish ==
    /\ Running /\ frames = <<>> /\ todo = {}
    /\ \E method \in Queries \cup {"detect_cycles"} :
           ret' = [method |-> method,
                   value |-> Answer(IF method = "detect_cycles" THEN "get_cycles" ELSE method,
                                    cycles)]
    /\ caller' = "none"
    /\ UNCHANGED <<cycles, visited, recursion_stack, frames, todo, calls, expanded,
                   graphVars, parserVars, deadVars, reportVars>>

NextCycle == DetectCycles \/ Query \/ ForEachNode \/ VisitNeighbor \/ DfsReturn \/ Finish

SpecCycle == InitCycle /\ [][NextCycle]_vars

(***************************************************************************)
(* DeadCodeDetector.detect_dead_code, as the loop of lines 43-56 runs it:  *)
(* dpc is "idle" before a call, "loop" while the work list is processed    *)
(* and "done" when the call has returned; cli.py makes one call per        *)
(* detector.  given is the argument of the call: None, or Some list of     *)
(* canonical paths (graph nodes or not).                                   *)
(***************************************************************************)
MaxDeadNodes == 3

MaxDeadEdges == 2

MaxEntryPoints == 2

\* the files of the analysed project: a.py, b.py, Main.py, c.py, run.py
DeadPaths == <<<<"a">>, <<"b">>, <<"Main">>, <<"c">>, <<"run">>>>

DeadNodes == {DeadPaths[i] : i \in 1..MaxDeadNodes}

DeadGraphs == GraphsOver(DeadNodes, MaxDeadEdges)

EntryLists == SeqsUpTo(DeadNodes, MaxEntryPoints)

\* the orders in which a set can be iterated
Orders(S) == {order \in [1..Cardinality(S) -> S] : \A x \in S : \E i \in DOMAIN order : order[i] = x}

\* lines 50-56 for the node just added to reachable: what the two loops append
ToAppend_dependencies_only(g, current, reached) ==
    {<<deps, <<>>>> : deps \in Orders({dep \in get_dependencies(g, current) : dep \notin reached})}

ToAppend(g, current, reached) ==
    Orders({dep \in get_dependencies(g, current) : dep \notin reached})
        \X Orders({dependent \in get_dependents(g, current) : dependent \notin reached})

\* lines 62-75: the files without dependents that are no entry point, with
\* their exports
UnusedExports(g, p, entries) ==
    LET flagged == {file_path \in get_all_nodes(g) :
                        /\ get_exports(p, file_path) # {}
                        /\ get_dependents(g, file_path) = {}
                        /\ file_path \notin Range(entries)}
    IN  [file_path \in flagged |-> get_exports(p, file_path)]

\* the characters of the names of the definitions used as inputs
DefSpelling ==
    [parse_a |-> <<"p", "a", "r", "s", "e", "_", "a">>,
     parse_b |-> <<"p", "a", "r", "s", "e", "_", "b">>,
     parse_c |-> <<"p", "a", "r", "s", "e", "_", "c">>,
     parse_d |-> <<"p", "a", "r", "s", "e", "_", "d">>,
     parse_e |-> <<"p", "a", "r", "s", "e", "_", "e">>,
     parse_f |-> <<"p", "a", "r", "s", "e", "_", "f">>,
     parse_g |-> <<"p", "a", "r", "s", "e", "_", "g">>,
     parse_h |-> <<"p", "a", "r", "s", "e", "_", "h">>,
     parse_i |-> <<"p", "a", "r", "s", "e", "_", "i">>,
     parse_j |-> <<"p", "a", "r", "s", "e", "_", "j">>,
     parse_k |-> <<"p", "a", "r", "s", "e", "_", "k">>,
     parse_l |-> <<"p", "a", "r", "s", "e", "_", "l">>,
     parse_m |-> <<"p", "a", "r", "s", "e", "_", "m">>,
     parse_n |-> <<"p", "a", "r", "s", "e", "_", "n">>,
     parse_o |-> <<"p", "a", "r", "s", "e", "_", "o">>,
     get_a |-> <<"g", "e", "t", "_", "a">>,
     get_b |-> <<"g", "e", "t", "_", "b">>,
     get_c |-> <<"g", "e", "t", "_", "c">>,
     get_d |-> <<"g", "e", "t", "_", "d">>,
     get_e |-> <<"g", "e", "t", "_", "e">>,
     get_f |-> <<"g", "e", "t", "_", "f">>,
     get_g |-> <<"g", "e", "t", "_", "g">>,
     get_h |-> <<"g", "e", "t", "_", "h">>,
     set_a |-> <<"s", "e", "t", "_", "a">>,
     set_b |-> <<"s", "e", "t", "_", "b">>,
     set_c |-> <<"s", "e", "t", "_", "c">>,
     set_d |-> <<"s", "e", "t", "_", "d">>,
     set_e |-> <<"s", "e", "t", "_", "e">>,
     set_f |-> <<"s", "e", "t", "_", "f">>,
     set_g |-> <<"s", "e", "t", "_", "g">>,
     AbcX |-> <<"A", "b", "c", "X">>,
     abcY |-> <<"a", "b", "c", "Y">>,
     AbcZ |-> <<"A", "b", "c", "Z">>,
     DefX |-> <<"D", "e", "f", "X">>,
     DefY |-> <<"D", "e", "f", "Y">>,
     Ghi |-> <<"G", "h", "i">>,
     Jkl |-> <<"J", "k", "l">>]

\* the characters of a file's stem, or of the name of a definition
Spelling(stem) ==
    CASE stem = "Main" -> <<"M", "a", "i", "n">>
      [] stem = "run" -> <<"r", "u", "n">>
      [] stem = "_g" -> <<"_", "g">>
      [] stem \in DOMAIN DefSpelling -> DefSpelling[stem]
      [] OTHER -> <<stem>>

UpperCase ==
    [M |-> "m", A |-> "a", D |-> "d", G |-> "g", J |-> "j", X |-> "x", Y |-> "y", Z |-> "z"]

\* str.lower() of one character
Lower(ch) == IF ch \in DOMAIN UpperCase THEN UpperCase[ch] ELSE ch

\* Path(file_path).name.lower(), lines 88-89
LowerName(file_path) ==
    LET name == Spelling(Stem(file_path)) \o <<".", "p", "y">> IN
    [i \in DOMAIN name |-> Lower(name[i])]

\* word in name
Contains(name, word) ==
    \E i \in 1..(Len(name) - Len(word) + 1) : SubSeq(name, i, i + Len(word) - 1) = word

EntryFileNames ==
    {<<"_", "_", "m", "a", "i", "n", "_", "_", ".", "p", "y">>,
     <<"m", "a", "i", "n", ".", "p", "y">>, <<"a", "p", "p", ".", "p", "y">>,
     <<"r", "u", "n", ".", "p", "y">>, <<"c", "l", "i", ".", "p", "y">>}

EntryWords ==
    {<<"m", "a", "i", "n">>, <<"e", "n", "t", "r", "y">>, <<"s", "t", "a", "r", "t">>}

\* lines 91-94
LooksLikeEntryPoint(file_path) ==
    LET name == LowerName(file_path) IN
    name \in EntryFileNames \/ \E word \in EntryWords : Contains(name, word)

\* the lists _find_entry_points can return, one for each order in which the
\* sets are iterated
_find_entry_points_roots_only(g) ==
    LET found == {file_path \in get_all_nodes(g) : LooksLikeEntryPoint(file_path)} IN
    IF found # {} THEN Orders(found) ELSE Orders(get_root_nodes(g))

_find_entry_points(g) ==
    LET found == {file_path \in get_all_nodes(g) : LooksLikeEntryPoint(file_path)}
        root_nodes == get_root_nodes(g)
    IN  IF found # {} THEN Orders(found)
        ELSE IF root_nodes # {} THEN Orders(root_nodes)
        ELSE Orders(get_all_nodes(g))

\* line 98: get_root_nodes() is called when no name looks like an entry point
QueriedByFindEntryPoints(g) ==
    Queried(g, {},
            IF \E file_path \in get_all_nodes(g) : LooksLikeEntryPoint(file_path)
            THEN {} ELSE g.nodes,
            {})

\* what the parser recorded as exports of the graph's files: nothing, or one
\* public name for each file (the detector reads no other cache)
ExportsInputs(files) == {EmptyDict, [file_path \in files |-> {"f"}]}

InitDead ==
    /\ InitGraphFrom(DeadGraphs)
    /\ fs = EmptyDict /\ parsed_files = <<>> /\ file_imports = EmptyDict
    /\ file_exports \in ExportsInputs(nodes) /\ file_lines = EmptyDict /\ phase = "none"
    /\ IdleCycle /\ IdleReport
    /\ given = None /\ entry_points = <<>> /\ reachable = {} /\ to_visit = <<>>
    /\ unused_modules = {} /\ unused_exports = EmptyDict /\ dpc = "idle"

\* DeadCodeDetector(graph, parser): a detector for the same graph
NewDeadCodeDetector ==
    /\ dpc = "done"
    /\ given' = None /\ entry_points' = <<>> /\ reachable' = {} /\ to_visit' = <<>>
    /\ unused_modules' = {} /\ unused_exports' = EmptyDict
    /\ dpc' = "idle"
    /\ UNCHANGED <<graphVars, parserVars, cycleVars, reportVars>>

DetectDeadCode ==
    /\ dpc = "idle"
    /\ given' \in {None} \cup {Some(list) : list \in EntryLists}
    /\ entry_points' \in (IF given' = None THEN _find_entry_points(TheGraph) ELSE {given'[1]})
    /\ to_visit' = entry_points'
    /\ reachable' = {}
    /\ dpc' = "loop"
    /\ SetGraph(IF given' = None THEN QueriedByFindEntryPoints(TheGraph) ELSE TheGraph)
    /\ UNCHANGED <<unused_modules, unused_exports, parserVars, cycleVars, reportVars>>

\* one iteration of the while loop
VisitNext ==
    /\ dpc = "loop" /\ to_visit # <<>>
    /\ LET current == to_visit[Len(to_visit)]
           popped == SubSeq(to_visit, 1, Len(to_visit) - 1)
       IN  IF current \in reachable
           THEN to_visit' = popped /\ reachable' = reachable /\ UNCHANGED graphVars
           ELSE /\ reachable' = reachable \cup {current}
                /\ \E appended \in ToAppend(TheGraph, current, reachable \cup {current}) :
                       to_visit' = popped \o appended[1] \o appended[2]
                /\ SetGraph(Queried(TheGraph, {current}, {current}, {}))
    /\ UNCHANGED <<given, entry_points, unused_modules, unused_exports, dpc,
                   parserVars, cycleVars, reportVars>>

\* the work list is empty: lines 59-80
ReturnDeadCode ==
    /\ dpc = "loop" /\ to_visit = <<>>
    /\ unused_modules' = get_all_nodes(TheGraph) \ reachable
    /\ unused_exports' = UnusedExports(TheGraph, TheParser, entry_points)
    /\ dpc' = "done"
    /\ SetGraph(Queried(TheGraph, {},
                        {file_path \in nodes : get_exports(TheParser, file_path) # {}}, {}))
    /\ UNCHANGED <<given, entry_points, reachable, to_visit, parserVars,
                   cycleVars, reportVars>>

NextDead == NewDeadCodeDetector \/ DetectDeadCode \/ VisitNext \/ ReturnDeadCode

SpecDead == InitDead /\ [][NextDead]_vars

(***************************************************************************)
(* Visualizer.generate_ascii_map.  The text is kept as the list of lines   *)
(* that '\n'.join receives.  A tree line has its indent (in units of two   *)
(* spaces), its branch mark and its text; a text is the node whose         *)
(* relative path is printed, the number of characters kept of it and       *)
(* whether "..." follows.                                                  *)
(***************************************************************************)
MaxMapNodes == 3

MaxMapEdges == 3

MaxDepth == 3

DefaultMaxWidth == 80

MapNodes == {NodePaths[i] : i \in 1..MaxMapNodes}

MapGraphs == GraphsOver(MapNodes, MaxMapEdges)

\* sorted(S)
Sorted(S) == CHOOSE order \in Orders(S) : \A i, j \in DOMAIN order : i < j => PathLess(order[i], order[j])

\* len(self._get_relative_path(file_path)) for a file in the project root
RelPathLen(file_path) == Len(Spelling(Stem(file_path))) + 3

\* len(s[:k]) for a string of length n
SliceLen(n, k) == IF k >= 0 THEN (IF k < n THEN k ELSE n) ELSE (IF n + k > 0 THEN n + k ELSE 0)

\* lines 77-78 and 93-94: the path, cut to s[:room - 3] + "..." when it is
\* longer than room
Fitted(file_path, room) ==
    IF RelPathLen(file_path) > room
    THEN [node |-> file_path, kept |-> SliceLen(RelPathLen(file_path), room - 3), dots |-> TRUE]
    ELSE [node |-> file_path, kept |-> RelPathLen(file_path), dots |-> FALSE]

TreeLine(indent, branch, text) ==
    [kind |-> "tree", indent |-> indent, branch |-> branch, text |-> text]

\* _ascii_dfs and its loop over the sorted dependencies from position i on;
\* st is the pair of the lines list and the visited set, both shared by all
\* activations
RECURSIVE _ascii_dfs(_, _, _, _, _, _)
RECURSIVE AsciiDeps(_, _, _, _, _, _, _)
AsciiDeps(g, deps, i, st, depth, max_depth, max_width) ==
    IF i > Len(deps) THEN st
    ELSE LET dep == deps[i]
             is_last == (i = Len(deps))
             prefix_len == 2 * (depth + 1) + 3
             line == TreeLine(depth + 1, IF is_last THEN "corner" ELSE "tee",
                              Fitted(dep, max_width - prefix_len - 4))
             listed == [st EXCEPT !.lines = Append(@, line)]
             st1 == IF depth + 1 <= max_depth
                    THEN (IF dep \notin listed.visited /\ depth + 1 < max_depth
                          THEN _ascii_dfs(g, dep, listed, depth + 2, max_depth, max_width)
                          ELSE listed)
                    ELSE st
         IN  AsciiDeps(g, deps, i + 1, st1, depth, max_depth, max_width)

_ascii_dfs(g, node, st, depth, max_depth, max_width) ==
    IF depth > max_depth \/ node \in st.visited THEN st
    ELSE LET line == TreeLine(depth, "tee", Fitted(node, max_width - (depth * 2) - 4))
             st1 == [lines |-> Append(st.lines, line), visited |-> st.visited \cup {node}]
         IN  AsciiDeps(g, Sorted(get_dependencies(g, node)), 1, st1, depth, max_depth,
                       max_width)

\* lines 42-48: the root nodes, or for a graph without one a node with the
\* fewest dependencies: min() returns the first such node of list(set), which
\* can be any of them
RootChoices(g) ==
    IF get_root_nodes(g) # {} THEN {get_root_nodes(g)}
    ELSE IF get_all_nodes(g) = {} THEN {{}}
    ELSE {{n} : n \in {m \in get_all_nodes(g) :
                          \A o \in get_all_nodes(g) :
                              Cardinality(get_dependencies(g, m))
                                  <= Cardinality(get_dependencies(g, o))}}

\* lines 52-54
RECURSIVE AsciiRoots(_, _, _, _, _)
AsciiRoots(g, roots, st, max_depth, max_width) ==
    IF roots = <<>> THEN st
    ELSE AsciiRoots(g, Tail(roots),
                    IF Head(roots) \notin st.visited
                    THEN _ascii_dfs(g, Head(roots), st, 0, max_depth, max_width)
                    ELSE st,
                    max_depth, max_width)

MapHeader(max_width) ==
    <<[kind |-> "rule", width |-> max_width], [kind |-> "title"],
      [kind |-> "rule", width |-> max_width], [kind |-> "blank"]>>

\* lines 56-63
IsolatedSection(g, seen) ==
    LET isolated == Sorted(get_isolated_nodes(g) \ seen) IN
    IF isolated = <<>> THEN <<>>
    ELSE <<[kind |-> "blank"], [kind |-> "isolated_header"]>>
             \o [i \in DOMAIN isolated |-> [kind |-> "isolated", node |-> isolated[i]]]

generate_ascii_map(g, root_nodes, max_depth, max_width) ==
    LET st == AsciiRoots(g, Sorted(root_nodes),
                         [lines |-> MapHeader(max_width), visited |-> {}],
                         max_depth, max_width)
    IN  st.lines \o IsolatedSection(g, st.visited)

\* the graph after generate_ascii_map: get_root_nodes, get_dependencies of
\* every node when there is no root and of every node the traversal expands,
\* get_isolated_nodes
QueriedByMap(g, root_nodes, max_depth, max_width) ==
    LET st == AsciiRoots(g, Sorted(root_nodes),
                         [lines |-> MapHeader(max_width), visited |-> {}],
                         max_depth, max_width)
    IN  Queried(g,
                st.visited \cup IsolatedOutKeys(g)
                    \cup (IF get_root_nodes(g) = {} THEN g.nodes ELSE {}),
                g.nodes, {})

InitMap ==
    /\ InitGraphFrom(MapGraphs)
    /\ IdleParser /\ IdleCycle /\ IdleDead /\ IdleReport

GenerateAsciiMap ==
    /\ \E max_depth \in 0..MaxDepth, root_nodes \in RootChoices(TheGraph) :
           /\ output' = [method |-> "generate_ascii_map", max_depth |-> max_depth,
                         value |-> generate_ascii_map(TheGraph, root_nodes, max_depth,
                                                      DefaultMaxWidth)]
           /\ SetGraph(QueriedByMap(TheGraph, root_nodes, max_depth, DefaultMaxWidth))
    /\ UNCHANGED <<dynamic_imports, metrics, suggestions, parserVars, cycleVars, deadVars>>

NextMap == GenerateAsciiMap

SpecMap == InitMap /\ [][NextMap]_vars

(***************************************************************************)
(* SpecWidth: generate_ascii_map with max_width given by the caller.       *)
(***************************************************************************)
MapWidths == {0, 5, 10, 12, 20, 80}

GenerateAsciiMapOfWidth ==
    /\ \E max_depth \in 0..MaxDepth, max_width \in MapWidths,
          root_nodes \in RootChoices(TheGraph) :
           /\ output' = [method |-> "generate_ascii_map", max_depth |-> max_depth,
                         max_width |-> max_width,
                         value |-> generate_ascii_map(TheGraph, root_nodes, max_depth,
                                                      max_width)]
           /\ SetGraph(QueriedByMap(TheGraph, root_nodes, max_depth, max_width))
    /\ UNCHANGED <<dynamic_imports, metrics, suggestions, parserVars, cycleVars, deadVars>>

NextWidth == GenerateAsciiMapOfWidth

SpecWidth == InitMap /\ [][NextWidth]_vars


(***************************************************************************)
(* Visualizer.generate_summary: the lines of the summary.                  *)
(***************************************************************************)
\* the count line of a section, sorted(S)[:5] and the "... and n more" line
SummarySection(title, S) ==
    LET listed == Sorted(S)
        shown == SubSeq(listed, 1, IF Len(listed) < 5 THEN Len(listed) ELSE 5)
    IN  <<[kind |-> title, count |-> Cardinality(S)]>>
            \o [i \in DOMAIN shown |-> [kind |-> "entry", node |-> shown[i]]]
            \o (IF Cardinality(S) > 5
                THEN <<[kind |-> "more", count |-> Cardinality(S) - 5]>> ELSE <<>>)
            \o <<[kind |-> "blank"]>>

generate_summary(g) ==
    <<[kind |-> "title"], [kind |-> "rule", width |-> 50], [kind |-> "blank"],
      [kind |-> "total_modules", count |-> Cardinality(get_all_nodes(g))],
      [kind |-> "total_dependencies", count |-> Len(g.edges)], [kind |-> "blank"]>>
        \o SummarySection("root_modules", get_root_nodes(g))
        \o SummarySection("leaf_modules", get_leaf_nodes(g))
        \o (IF get_isolated_nodes(g) # {}
            THEN SummarySection("isolated_modules", get_isolated_nodes(g)) ELSE <<>>)

\* get_root_nodes, get_leaf_nodes and get_isolated_nodes read every node
QueriedBySummary(g) == Queried(g, g.nodes, g.nodes, {})

(***************************************************************************)
(* ModuleAnalyzer.  metrics is the dictionary in insertion order: a        *)
(* sequence of [file_path, metrics].  The complexity score is kept in      *)
(* thousandths.                                                            *)
(***************************************************************************)
Min(x, y) == IF x < y THEN x ELSE y

_calculate_complexity(lines, deps, dependents) ==
    60 * Min(lines, 1000) + 2000 * Min(deps + dependents, 20)

_analyze_module(g, p, file_path) ==
    LET line_count == get_line_count(p, file_path)
        exports == get_exports(p, file_path)
        dependencies == get_dependencies(g, file_path)
        dependents == get_dependents(g, file_path)
    IN  [line_count |-> line_count,
         export_count |-> Cardinality(exports),
         dependency_count |-> Cardinality(dependencies),
         dependent_count |-> Cardinality(dependents),
         fan_in |-> Cardinality(dependents),
         fan_out |-> Cardinality(dependencies),
         complexity_score |-> _calculate_complexity(line_count, Cardinality(dependencies),
                                                    Cardinality(dependents))]

\* order is the order in which get_all_nodes() is iterated
analyze_all_modules(g, p, order) ==
    [i \in DOMAIN order |-> [file_path |-> order[i],
                             metrics |-> _analyze_module(g, p, order[i])]]

\* _analyze_module reads the adjacency and the metadata of every node
QueriedByAnalyzer(g) == Queried(g, g.nodes, g.nodes, g.nodes)

\* sorted(pairs, key=lambda x: x[1], reverse=True): descending, equal keys in
\* their order in pairs
SortedByCountDesc(pairs) ==
    LET n == Len(pairs)
        perm == CHOOSE f \in [1..n -> 1..n] :
                    /\ \A i \in 1..n : \E j \in 1..n : f[j] = i
                    /\ \A i, j \in 1..n :
                           i < j => \/ pairs[f[i]][2] > pairs[f[j]][2]
                                    \/ pairs[f[i]][2] = pairs[f[j]][2] /\ f[i] < f[j]
    IN  [i \in 1..n |-> pairs[perm[i]]]

get_oversized_modules(m, threshold) ==
    LET over == SelectSeq(m, LAMBDA e : e.metrics.line_count > threshold) IN
    SortedByCountDesc([i \in DOMAIN over |-> <<over[i].file_path, over[i].metrics.line_count>>])

total_coupling(metric) == metric.dependency_count + metric.dependent_count

get_highly_coupled_modules(m, threshold) ==
    LET coupled == SelectSeq(m, LAMBDA e : total_coupling(e.metrics) > threshold) IN
    SortedByCountDesc([i \in DOMAIN coupled |->
                          <<coupled[i].file_path, total_coupling(coupled[i].metrics)>>])

(***************************************************************************)
(* SplitSuggester.  A tree's body is its statement list; the name of a     *)
(* definition is spelled by Spelling.                                      *)
(***************************************************************************)
LowerChars(name) == [i \in DOMAIN name |-> Lower(name[i])]

_common_prefix(s1, s2) ==
    Cardinality({i \in 1..Min(Len(s1), Len(s2)) : \A j \in 1..i : s1[j] = s2[j]})

_get_prefix(name) ==
    IF \E i \in DOMAIN name : name[i] = "_"
    THEN SubSeq(name, 1, (CHOOSE i \in DOMAIN name :
                             name[i] = "_" /\ \A j \in 1..(i - 1) : name[j] # "_") - 1)
    ELSE <<>>

\* the groups, each the set of the positions of its members
RECURSIVE GroupClassesFrom(_, _, _, _)
GroupClassesFrom(names, i, used, groups) ==
    IF i > Len(names) THEN groups
    ELSE IF i \in used THEN GroupClassesFrom(names, i + 1, used, groups)
    ELSE LET group == {i} \cup {j \in (i + 1)..Len(names) :
                                   /\ j \notin used
                                   /\ _common_prefix(LowerChars(names[i]),
                                                     LowerChars(names[j])) >= 3}
         IN  GroupClassesFrom(names, i + 1, used \cup group, Append(groups, group))

_group_classes(names) == GroupClassesFrom(names, 1, {}, <<>>)

RECURSIVE GroupFunctionsFrom(_, _, _, _)
GroupFunctionsFrom(names, i, used, groups) ==
    IF i > Len(names) THEN groups
    ELSE IF i \in used THEN GroupFunctionsFrom(names, i + 1, used, groups)
    ELSE LET prefix == _get_prefix(LowerChars(names[i]))
             group == {i} \cup {j \in (i + 1)..Len(names) :
                                   /\ j \notin used
                                   /\ prefix # <<>>
                                   /\ prefix = _get_prefix(LowerChars(names[j]))
                                   /\ Len(prefix) >= 3}
         IN  GroupFunctionsFrom(names, i + 1, used \cup group, Append(groups, group))

_group_functions(names) == GroupFunctionsFrom(names, 1, {}, <<>>)

\* the names of the statements of one kind, in body order
NamesOf(tree, kind) ==
    LET defs == SelectSeq(tree, LAMBDA node : node.kind = kind) IN
    [i \in DOMAIN defs |-> Spelling(defs[i].name)]

_analyze_for_splits(tree, min_functions) ==
    LET classes == NamesOf(tree, "class")
        functions == NamesOf(tree, "def")
    IN  (IF Len(classes) >= 3 /\ Len(_group_classes(classes)) > 1
         THEN <<[type |-> "class_grouping", count |-> Len(classes),
                 groups |-> Len(_group_classes(classes))]>> ELSE <<>>)
        \o (IF Len(functions) >= min_functions /\ Len(_group_functions(functions)) > 1
            THEN <<[type |-> "function_grouping", count |-> Len(functions),
                    groups |-> Len(_group_functions(functions))]>> ELSE <<>>)
        \o (IF Len(classes) = 0 /\ Len(functions) >= 15
            THEN <<[type |-> "utility_split", count |-> Len(functions)]>> ELSE <<>>)

\* the suggestions dictionary in insertion order; order is the order in
\* which get_all_nodes() is iterated
RECURSIVE suggest_splits(_, _, _, _)
suggest_splits(p, order, min_lines, min_functions) ==
    IF order = <<>> THEN <<>>
    ELSE LET file_path == Head(order)
             rest == suggest_splits(p, Tail(order), min_lines, min_functions)
             trees == {e \in Range(p.parsed_files) : e.file = file_path}
         IN  IF get_line_count(p, file_path) < min_lines \/ trees = {} THEN rest
             ELSE LET found == _analyze_for_splits((CHOOSE e \in trees : TRUE).tree,
                                                   min_functions)
                  IN  IF found = <<>> THEN rest
                      ELSE <<[file_path |-> file_path, suggestions |-> found]>> \o rest

(***************************************************************************)
(* SpecRun: the diagnostics of cli.py on a built graph: the two detectors, *)
(* the analyzer, the suggester, the visualizer and the graph's own         *)
(* queries, called one after the other in any order, any number of times.  *)
(* A call runs to its end before the next one starts, and what one         *)
(* component returned is discarded (a new detector, analyzer or suggester  *)
(* is made for the same graph and parser) before another takes its turn.   *)
(***************************************************************************)
MaxRunNodes == 2

MaxRunEdges == 2

RunNodes == {NodePaths[i] : i \in 1..MaxRunNodes}

RunGraphs == GraphsOver(RunNodes, MaxRunEdges)

\* what the parser holds of the graph's files: nothing, or for every file
\* the tree of "def f" and "def _g", or that of "import os"
RunContents ==
    {[status |-> "ok", stmts |-> <<DefStmt("f", FALSE), DefStmt("_g", TRUE)>>],
     [status |-> "ok", stmts |-> <<ImportStmt(<<"os">>)>>]}

RunParsers(files) ==
    {EmptyParser}
        \cup {ParseAll(EmptyParser, [file \in files |-> content], Sorted(files)) :
                  content \in RunContents}

Thresholds == {0, 1, 500}

MinLines == {0, 2, 300}

MinFunctions == {2, 3, 10}

CycleAtRest ==
    /\ cycles = <<>> /\ visited = {} /\ recursion_stack = {} /\ frames = <<>>
    /\ todo = {} /\ caller = "none" /\ ret = None /\ calls = 0
    /\ expanded = [n \in nodes |-> 0]

DeadAtRest ==
    /\ given = None /\ entry_points = <<>> /\ reachable = {} /\ to_visit = <<>>
    /\ unused_modules = {} /\ unused_exports = EmptyDict /\ dpc = "idle"

InitRun ==
    /\ InitGraphFrom(RunGraphs)
    /\ fs = EmptyDict /\ phase = "none"
    /\ \E p \in RunParsers(nodes) :
           /\ parsed_files = p.parsed_files /\ file_imports = p.file_imports
           /\ file_exports = p.file_exports /\ file_lines = p.file_lines
    /\ CycleAtRest /\ DeadAtRest /\ IdleReport

\* CycleDetector(graph): a detector for the same graph
NewCycleDetector ==
    /\ ~Running /\ ~CycleAtRest
    /\ SetDetector(Reset("none"))
    /\ todo' = {} /\ ret' = None
    /\ UNCHANGED <<graphVars, parserVars, deadVars, reportVars>>

\* ModuleAnalyzer(graph, parser), SplitSuggester(graph, parser)
NewReports ==
    /\ ~IdleReport
    /\ metrics' = EmptyDict /\ suggestions' = EmptyDict /\ output' = None
    /\ UNCHANGED <<dynamic_imports, graphVars, parserVars, cycleVars, deadVars>>

AnalyzeAllModules ==
    /\ \E order \in Orders(get_all_nodes(TheGraph)) :
           /\ metrics' = analyze_all_modules(TheGraph, TheParser, order)
           /\ output' = [method |-> "analyze_all_modules", value |-> metrics']
    /\ SetGraph(QueriedByAnalyzer(TheGraph))
    /\ UNCHANGED <<dynamic_imports, suggestions, parserVars, cycleVars, deadVars>>

\* reads self.metrics only
GetOversizedModules ==
    /\ \E threshold \in Thresholds :
           output' = [method |-> "get_oversized_modules", threshold |-> threshold,
                      value |-> get_oversized_modules(metrics, threshold)]
    /\ UNCHANGED <<dynamic_imports, metrics, suggestions, graphVars, parserVars, cycleVars, deadVars>>

\* the graph is asked for get_all_nodes() only, which returns a copy
SuggestSplits ==
    /\ \E order \in Orders(get_all_nodes(TheGraph)), min_lines \in MinLines,
          min_functions \in MinFunctions :
           /\ suggestions' = suggest_splits(TheParser, order, min_lines, min_functions)
           /\ output' = [method |-> "suggest_splits", min_lines |-> min_lines,
                         min_functions |-> min_functions, value |-> suggestions']
    /\ UNCHANGED <<dynamic_imports, metrics, graphVars, parserVars, cycleVars, deadVars>>

GenerateSummary ==
    /\ output' = [method |-> "generate_summary", value |-> generate_summary(TheGraph)]
    /\ SetGraph(QueriedBySummary(TheGraph))
    /\ UNCHANGED <<dynamic_imports, metrics, suggestions, parserVars, cycleVars, deadVars>>

GetRootNodes ==
    /\ output' = [method |-> "get_root_nodes", value |-> get_root_nodes(TheGraph)]
    /\ SetGraph(Queried(TheGraph, {}, nodes, {}))
    /\ UNCHANGED <<dynamic_imports, metrics, suggestions, parserVars, cycleVars, deadVars>>

GetLeafNodes ==
    /\ output' = [method |-> "get_leaf_nodes", value |-> get_leaf_nodes(TheGraph)]
    /\ SetGraph(Queried(TheGraph, nodes, {}, {}))
    /\ UNCHANGED <<dynamic_imports, metrics, suggestions, parserVars, cycleVars, deadVars>>

GetIsolatedNodes ==
    /\ output' = [method |-> "get_isolated_nodes", value |-> get_isolated_nodes(TheGraph)]
    /\ SetGraph(Queried(TheGraph, IsolatedOutKeys(TheGraph), nodes, {}))
    /\ UNCHANGED <<dynamic_imports, metrics, suggestions, parserVars, cycleVars, deadVars>>

\* the turn of the cycle detector, of the dead-code detector, of the others
CycleTurn == DeadAtRest /\ IdleReport

DeadTurn == CycleAtRest /\ IdleReport

ReportTurn == CycleAtRest /\ DeadAtRest

Returned(methods) == IF output = None THEN TRUE ELSE output.method \in methods

AnalyzerTurn ==
    /\ ReportTurn /\ suggestions = EmptyDict
    /\ Returned({"analyze_all_modules", "get_oversized_modules"})

SuggesterTurn == ReportTurn /\ metrics = EmptyDict /\ Returned({"suggest_splits"})

GraphTurn ==
    /\ ReportTurn /\ metrics = EmptyDict /\ suggestions = EmptyDict
    /\ Returned({"generate_ascii_map", "generate_summary", "get_root_nodes",
                 "get_leaf_nodes", "get_isolated_nodes"})

\* the entry points given in this specification: none, or one path
RunEntryLists == {None} \cup {Some(list) : list \in SeqsUpTo(DeadNodes, 1)}

NextRun ==
    \/ CycleTurn /\ DetectCycles
    \/ CycleTurn /\ Query
    \/ CycleTurn /\ ForEachNode
    \/ CycleTurn /\ VisitNeighbor
    \/ CycleTurn /\ DfsReturn
    \/ CycleTurn /\ Finish
    \/ CycleTurn /\ NewCycleDetector
    \/ DeadTurn /\ NewDeadCodeDetector
    \/ DeadTurn /\ DetectDeadCode /\ given' \in RunEntryLists
    \/ DeadTurn /\ VisitNext
    \/ DeadTurn /\ ReturnDeadCode
    \/ ReportTurn /\ NewReports
    \/ AnalyzerTurn /\ AnalyzeAllModules
    \/ AnalyzerTurn /\ GetOversizedModules
    \/ SuggesterTurn /\ SuggestSplits
    \/ GraphTurn /\ GenerateSummary
    \/ GraphTurn /\ GenerateAsciiMap
    \/ GraphTurn /\ GetRootNodes
    \/ GraphTurn /\ GetLeafNodes
    \/ GraphTurn /\ GetIsolatedNodes

SpecRun == InitRun /\ [][NextRun]_vars

(***************************************************************************)
(* SpecAnalyzer: a ModuleAnalyzer over a graph and a parser; the metrics   *)
(* are filled in the order get_all_nodes() is iterated, then the two       *)
(* sorted lists are asked for.                                             *)
(***************************************************************************)
MaxAnalyzerNodes == 3
MaxAnalyzerEdges == 3

AnalyzerNodes == {NodePaths[i] : i \in 1..MaxAnalyzerNodes}

AnalyzerGraphs == GraphsOver(AnalyzerNodes, MaxAnalyzerEdges)

InitAnalyzer ==
    /\ InitGraphFrom(AnalyzerGraphs)
    /\ fs = EmptyDict /\ phase = "none"
    /\ \E p \in RunParsers(nodes) :
           /\ parsed_files = p.parsed_files /\ file_imports = p.file_imports
           /\ file_exports = p.file_exports /\ file_lines = p.file_lines
    /\ CycleAtRest /\ DeadAtRest /\ IdleReport

\* reads self.metrics only
GetHighlyCoupledModules ==
    /\ \E threshold \in Thresholds :
           output' = [method |-> "get_highly_coupled_modules", threshold |-> threshold,
                      value |-> get_highly_coupled_modules(metrics, threshold)]
    /\ UNCHANGED <<dynamic_imports, metrics, suggestions, graphVars, parserVars, cycleVars, deadVars>>

NextAnalyzer ==
    \/ AnalyzeAllModules
    \/ metrics # EmptyDict /\ GetOversizedModules
    \/ metrics # EmptyDict /\ GetHighlyCoupledModules

SpecAnalyzer == InitAnalyzer /\ [][NextAnalyzer]_vars


(***************************************************************************)
(* SpecSplit: SplitSuggester.suggest_splits over the files of a graph,     *)
(* each with a line count and, when it was parsed, a tree.                 *)
(***************************************************************************)
MaxSplitNodes == 1

ClassStmt(name) == [kind |-> "class", name |-> name]

Defs(names) == [i \in DOMAIN names |-> DefStmt(names[i], FALSE)]

Classes(names) == [i \in DOMAIN names |-> ClassStmt(names[i])]

ParseNames ==
    <<"parse_a", "parse_b", "parse_c", "parse_d", "parse_e", "parse_f", "parse_g",
      "parse_h", "parse_i", "parse_j", "parse_k", "parse_l", "parse_m", "parse_n",
      "parse_o">>

GetSetNames ==
    <<"get_a", "get_b", "get_c", "get_d", "get_e", "get_f", "get_g", "get_h",
      "set_a", "set_b", "set_c", "set_d", "set_e", "set_f", "set_g">>

\* the bodies of the modules analysed: functions of one prefix, of two
\* prefixes, ten functions below a class, and classes whose names share a
\* prefix in none, one or two groups
SplitTrees ==
    {Defs(ParseNames), Defs(GetSetNames),
     Classes(<<"Ghi">>) \o Defs(SubSeq(GetSetNames, 4, 13)),
     Classes(<<"AbcX", "DefX", "Ghi">>),
     Classes(<<"AbcX", "abcY", "Ghi">>),
     Classes(<<"AbcX", "abcY", "AbcZ">>),
     Classes(<<"AbcX", "DefX", "abcY", "DefY">>),
     Classes(<<"AbcX", "DefX">>),
     <<>>}

SplitLineCounts == {2, 299, 300, 301, 400}

SplitNodes == {NodePaths[i] : i \in 1..MaxSplitNodes}

\* what the parser holds of a file: its line count and, unless it failed to
\* parse, its tree, of one statement a line at most
SplitParsers(files) ==
    {[parsed_files |-> [i \in DOMAIN order |->
                           [file |-> order[i], tree |-> trees[order[i]]]],
      file_imports |-> EmptyDict,
      file_exports |-> EmptyDict,
      file_lines |-> lines] :
        order \in UNION {Orders(parsed) : parsed \in SUBSET files},
        <<trees, lines>> \in
            {tl \in [files -> SplitTrees] \X [files -> SplitLineCounts] :
                \A file \in files : Len(tl[1][file]) <= tl[2][file]}}

InitSplit ==
    /\ InitGraphFrom(GraphsOver(SplitNodes, 0))
    /\ fs = EmptyDict /\ phase = "none"
    /\ \E p \in SplitParsers(nodes) :
           /\ parsed_files = p.parsed_files /\ file_imports = p.file_imports
           /\ file_exports = p.file_exports /\ file_lines = p.file_lines
    /\ CycleAtRest /\ DeadAtRest /\ IdleReport

NextSplit == SuggestSplits

SpecSplit == InitSplit /\ [][NextSplit]_vars

(***************************************************************************)
(* Visualizer.export_graphviz with format 'dot': the lines of the DOT      *)
(* text.  A node line carries the node (its id and label are derived from  *)
(* its path alone), its color and its style; an edge line its two nodes,   *)
(* its style and its color.  The CycleDetector that export_graphviz makes  *)
(* runs as in SpecCycle; ExportGraphviz is the rest of the call, from      *)
(* line 134 on, once that detector has returned.                           *)
(***************************************************************************)
MaxDotNodes == 3

MaxDotEdges == 4

DefaultOversizedThreshold == 500

DotNodes == {NodePaths[i] : i \in 1..MaxDotNodes}

DotGraphs == GraphsOver(DotNodes, MaxDotEdges)

\* the line counts build_from_parser recorded: of every file 0, or 600
DotLineCounts == {0, 600}

\* lines 102-105 of cycle_detector.py
get_nodes_in_cycles(cs) == UNION {Range(cs[i]) : i \in DOMAIN cs}

\* lines 136-141
OversizedNodes(g, oversized_threshold) ==
    {node \in get_all_nodes(g) :
        Get(Get(g.node_metadata, node, EmptyDict), "line_count", 0) > oversized_threshold}

DotNodeLine(g, node, nodes_in_cycles, oversized_nodes) ==
    LET line_count == Get(Get(g.node_metadata, node, EmptyDict), "line_count", 0) IN
    [kind |-> "node", node |-> node,
     label_lines |-> IF line_count # 0 THEN Some(line_count) ELSE None,
     color |-> IF node \in nodes_in_cycles THEN "red"
               ELSE IF node \in oversized_nodes THEN "orange" ELSE "black",
     style |-> IF node \in nodes_in_cycles THEN "rounded, bold" ELSE "rounded"]

DotEdgeLine(edge, nodes_in_cycles) ==
    LET both == edge[1] \in nodes_in_cycles /\ edge[2] \in nodes_in_cycles IN
    [kind |-> "edge", from_node |-> edge[1], to_node |-> edge[2],
     style |-> IF both THEN "bold" ELSE "solid",
     color |-> IF both THEN "red" ELSE "gray"]

\* cs is what the detector made on line 132 holds when it has returned
export_graphviz(g, cs, highlight_cycles, highlight_oversized, oversized_threshold) ==
    LET nodes_in_cycles == IF highlight_cycles THEN get_nodes_in_cycles(cs) ELSE {}
        oversized_nodes == IF highlight_oversized
                           THEN OversizedNodes(g, oversized_threshold) ELSE {}
        listed == Sorted(get_all_nodes(g))
    IN  <<[kind |-> "open"], [kind |-> "rankdir"], [kind |-> "node_defaults"],
          [kind |-> "blank"]>>
            \o [i \in DOMAIN listed |->
                    DotNodeLine(g, listed[i], nodes_in_cycles, oversized_nodes)]
            \o <<[kind |-> "blank"]>>
            \o [i \in DOMAIN g.edges |-> DotEdgeLine(g.edges[i], nodes_in_cycles)]
            \o <<[kind |-> "close"]>>

InitDot ==
    /\ \E g \in DotGraphs, line_count \in DotLineCounts :
           /\ nodes = g.nodes /\ edges = g.edges
           /\ incoming = g.incoming /\ outgoing = g.outgoing
           /\ node_metadata = [node \in g.nodes |-> [line_count |-> line_count,
                                                      exports |-> {},
                                                      export_count |-> 0]]
    /\ IdleParser /\ IdleDead /\ IdleReport
    /\ cycles = <<>> /\ visited = {} /\ recursion_stack = {} /\ frames = <<>>
    /\ todo = {} /\ caller = "none" /\ ret = None /\ calls = 0
    /\ expanded = [n \in nodes |-> 0]

ExportGraphviz ==
    /\ caller = "none" /\ ret # None
    /\ \E highlight_cycles \in BOOLEAN, highlight_oversized \in BOOLEAN :
           output' = [method |-> "export_graphviz",
                      highlight_cycles |-> highlight_cycles,
                      highlight_oversized |-> highlight_oversized,
                      value |-> export_graphviz(TheGraph, cycles, highlight_cycles,
                                                highlight_oversized,
                                                DefaultOversizedThreshold)]
    /\ SetGraph(Queried(TheGraph, {}, {}, nodes))
    /\ UNCHANGED <<dynamic_imports, metrics, suggestions, parserVars, cycleVars, deadVars>>

\* the detector runs first; the file is written once
NextDot ==
    \/ output = None /\ DetectCycles
    \/ output = None /\ Query
    \/ output = None /\ ForEachNode
    \/ output = None /\ VisitNeighbor
    \/ output = None /\ DfsReturn
    \/ output = None /\ Finish
    \/ output = None /\ ExportGraphviz

SpecDot == InitDot /\ [][NextDot]_vars

(***************************************************************************)
(* DynamicImportDetector.  A tree is its statement list, one statement a   *)
(* line: an expression statement holding one call, or an assignment.  The  *)
(* function called is a name, or an attribute of an expression that is a   *)
(* name or something else (importlib.util).  A record of the issues list   *)
(* is its line and its pattern (the reason is fixed by the pattern).       *)
(***************************************************************************)
MaxDynStmts == 2

NameExpr(id) == [kind |-> "Name", id |-> id]

AttributeExpr(value, attr) == [kind |-> "Attribute", value |-> value, attr |-> attr]

CallStmt(func) == [kind |-> "Call", func |-> func]

\* __import__('x'); eval('x'); print('x'); importlib.import_module('x');
\* foo.import_module('x'); importlib.util.import_module('x');
\* builtins.__import__('x'); foo.__import__('x'); x = 1
DynStmts ==
    {CallStmt(NameExpr("__import__")), CallStmt(NameExpr("eval")),
     CallStmt(NameExpr("print")),
     CallStmt(AttributeExpr(NameExpr("importlib"), "import_module")),
     CallStmt(AttributeExpr(NameExpr("foo"), "import_module")),
     CallStmt(AttributeExpr(AttributeExpr(NameExpr("importlib"), "util"), "import_module")),
     CallStmt(AttributeExpr(NameExpr("builtins"), "__import__")),
     CallStmt(AttributeExpr(NameExpr("foo"), "__import__")),
     [kind |-> "Assign"]}

DynTrees == SeqsUpTo(DynStmts, MaxDynStmts)

DynFiles == {<<"a">>, <<"b">>}

\* ast.walk(tree), breadth first: the Module node, the statements, then the
\* Call nodes of the expression statements (what lies below a Call node of
\* these trees is no Call node, and is walked like the Module node)
Walk(tree) ==
    LET call_lines == {i \in DOMAIN tree : tree[i].kind = "Call"}
        CallNodes[i \in 0..Len(tree)] ==
            IF i = 0 THEN <<>>
            ELSE IF i \in call_lines
                 THEN Append(CallNodes[i - 1],
                             [kind |-> "Call", func |-> tree[i].func, lineno |-> i])
                 ELSE CallNodes[i - 1]
    IN  <<[kind |-> "Module"]>>
            \o [i \in DOMAIN tree |->
                   [kind |-> IF i \in call_lines THEN "Expr" ELSE "Assign", lineno |-> i]]
            \o CallNodes[Len(tree)]
            \o [i \in 1..Cardinality(call_lines) |-> [kind |-> "Load"]]

Issue(lineno, pattern) == [line |-> lineno, pattern |-> pattern]

\* line 66 names ast.Exec, which the ast module of Python 3 does not have:
\* evaluating it raises AttributeError
AstHasExec == FALSE

\* lines 31-44
DirectImportIssues(node) ==
    IF node.kind # "Call" THEN <<>>
    ELSE IF node.func.kind = "Name" /\ node.func.id = "__import__"
         THEN <<Issue(node.lineno, "__import__()")>>
    ELSE IF node.func.kind = "Attribute" /\ node.func.attr = "__import__"
         THEN <<Issue(node.lineno, "builtins.__import__()")>>
    ELSE <<>>

\* lines 46-62
ImportlibIssues(node) ==
    IF node.kind # "Call" \/ node.func.kind # "Attribute" THEN <<>>
    ELSE IF node.func.attr = "import_module"
         THEN (IF node.func.value.kind = "Name" /\ node.func.value.id = "importlib"
               THEN <<Issue(node.lineno, "importlib.import_module()")>> ELSE <<>>)
    ELSE IF node.func.attr = "__import__"
         THEN (IF node.func.value.kind = "Name" /\ node.func.value.id = "builtins"
               THEN <<Issue(node.lineno, "builtins.__import__()")>> ELSE <<>>)
    ELSE <<>>

\* lines 64-75, once the isinstance test of line 66 has been evaluated
ExecEvalIssues(node) ==
    IF node.kind = "Call" /\ node.func.kind = "Name"
           /\ node.func.id \in {"exec", "eval", "compile"}
    THEN <<Issue(node.lineno, IF node.func.id = "eval" THEN "eval()"
                              ELSE IF node.func.id = "exec" THEN "exec()"
                              ELSE "compile()")>>
    ELSE <<>>

\* the loop of line 29 from position i of the walk on; st is the issues
\* list and whether an exception has left the loop
RECURSIVE WalkFrom(_, _, _)
WalkFrom(walk, i, st) ==
    IF i > Len(walk) \/ st.raised THEN st
    ELSE LET node == walk[i]
             found == st.issues \o DirectImportIssues(node) \o ImportlibIssues(node)
         IN  IF AstHasExec
             THEN WalkFrom(walk, i + 1,
                           [issues |-> found \o ExecEvalIssues(node), raised |-> FALSE])
             ELSE [issues |-> found, raised |-> TRUE]

\* the detector's dictionary after the call, whether the call raised, and
\* the list it returned
detect_dynamic_imports(d, file_path, tree) ==
    LET st == WalkFrom(Walk(tree), 1, [issues |-> <<>>, raised |-> FALSE]) IN
    IF st.raised THEN [dynamic_imports |-> d, raised |-> TRUE, value |-> None]
    ELSE [dynamic_imports |-> IF st.issues # <<>> THEN Put(d, file_path, st.issues) ELSE d,
          raised |-> FALSE, value |-> Some(st.issues)]

get_dynamic_imports(d, file_path) == Get(d, file_path, <<>>)

InitDyn ==
    /\ IdleGraph /\ IdleParser /\ IdleCycle /\ IdleDead /\ IdleReport

DetectDynamicImports ==
    /\ \E file_path \in DynFiles, tree \in DynTrees :
           LET call == detect_dynamic_imports(dynamic_imports, file_path, tree) IN
           /\ dynamic_imports' = call.dynamic_imports
           /\ output' = [method |-> "detect_dynamic_imports", file_path |-> file_path,
                         tree |-> tree, raised |-> call.raised, value |-> call.value]
    /\ UNCHANGED <<metrics, suggestions, graphVars, parserVars, cycleVars, deadVars>>

NextDyn == DetectDynamicImports

SpecDyn == InitDyn /\ [][NextDyn]_vars

(***************************************************************************)
(* Properties of the graph.                                                *)
(***************************************************************************)
EdgePairs == {<<edges[i][1], edges[i][2]>> : i \in DOMAIN edges}

AllPaths == nodes \cup (DOMAIN incoming) \cup (DOMAIN outgoing)
                \cup {e[1] : e \in EdgePairs} \cup {e[2] : e \in EdgePairs}

\* C1: the adjacency indices agree exactly with the edge list: some edge
\* (u, v, _) is in edges iff v is in outgoing[u] iff u is in incoming[v], hence
\* v is in get_dependencies(u) exactly when u is in get_dependents(v).
C1_AdjacencyMatchesEdges ==
    \A u \in AllPaths, v \in AllPaths :
        /\ (<<u, v>> \in EdgePairs) <=> (v \in Get(outgoing, u, {}))
        /\ (<<u, v>> \in EdgePairs) <=> (u \in Get(incoming, v, {}))
        /\ (v \in get_dependencies(TheGraph, u)) <=> (u \in get_dependents(TheGraph, v))

C1_Witness ==
    /\ Len(edges) = 2 /\ edges[1][1] # edges[2][1]
    /\ \E u \in nodes : Cardinality(Get(incoming, u, {})) = 2

\* the step is a call of add_edge: it records one edge, the last of edges'
AddEdgeStep ==
    /\ Len(edges') = Len(edges) + 1
    /\ LET e == edges'[Len(edges')] IN TheGraph' = add_edge(TheGraph, e[1], e[2], Some(e[3]))

\* C2: both endpoints of every edge in the edge list are nodes (with a
\* metadata entry), and every node an add_edge call adds is an endpoint of
\* the edge it records and gets empty metadata.
C2_EndpointsAreNodes ==
    /\ [](\A i \in DOMAIN edges :
              /\ edges[i][1] \in nodes /\ edges[i][2] \in nodes
              /\ edges[i][1] \in DOMAIN node_metadata
              /\ edges[i][2] \in DOMAIN node_metadata)
    /\ [][AddEdgeStep =>
              \A f \in nodes' \ nodes :
                  /\ f \in {edges'[Len(edges')][1], edges'[Len(edges')][2]}
                  /\ node_metadata'[f] = EmptyDict]_vars

C2_Witness ==
    /\ Len(edges) >= 1
    /\ \E i \in DOMAIN edges : node_metadata[edges[i][2]] = EmptyDict

\* C3: after build_from_parser the node set equals the set of successfully
\* parsed files.
C3_NodesAreParsedFiles ==
    phase = "built" => nodes = Range(get_all_files(TheParser))

(***************************************************************************)
(* Properties of the cycle detector.                                       *)
(***************************************************************************)
Edge(u, v) == v \in Get(outgoing, u, {})

\* a detection run has returned and its result is recorded
Detected == caller = "none" /\ ret # None

\* the sequences of distinct nodes that are simple directed cycles
RECURSIVE DistinctSeqs(_, _)
DistinctSeqs(S, n) ==
    IF n = 0 THEN {<<>>}
    ELSE LET shorter == DistinctSeqs(S, n - 1) IN
         shorter \cup {Append(s, x) : <<s, x>> \in {<<s, x>> \in shorter \X S : x \notin Range(s)}}

SimpleCycles ==
    {s \in DistinctSeqs(nodes, Cardinality(nodes)) :
        /\ s # <<>>
        /\ \A i \in 1..(Len(s) - 1) : Edge(s[i], s[i + 1])
        /\ Edge(s[Len(s)], s[1])}

\* the nodes reachable from S along edges, S included
RECURSIVE Descendants(_)
Descendants(S) ==
    LET more == S \cup UNION {Get(outgoing, n, {}) : n \in S} IN
    IF more = S THEN S ELSE Descendants(more)

\* some node reaches itself along one edge or more
GraphHasCycle == \E n \in nodes : n \in Descendants(Get(outgoing, n, {}))

\* the list names a directed closed walk: each node has an edge to the next,
\* and the last has one back to the first unless the list already ends with
\* its first node
ClosedWalk(c) ==
    /\ c # <<>>
    /\ \A i \in 1..(Len(c) - 1) : Edge(c[i], c[i + 1])
    /\ (c[Len(c)] = c[1] /\ Len(c) > 1) \/ Edge(c[Len(c)], c[1])

\* C4: every recorded cycle is a directed closed walk of the graph, also when
\* the DFS entered the loop at a node that is not its least.
C4_CyclesAreClosedWalks == \A i \in DOMAIN cycles : ClosedWalk(cycles[i])

\* C5: every simple directed cycle of the graph has its vertex set among the
\* vertex sets of the returned cycles, whatever the iteration order.
C5_AllSimpleCyclesFound ==
    Detected => \A s \in SimpleCycles : \E i \in DOMAIN cycles : Range(cycles[i]) = Range(s)

\* C6: no two recorded cycles have the same set of participating nodes.
C6_UniqueVertexSets ==
    \A i \in DOMAIN cycles, j \in DOMAIN cycles : i # j => Range(cycles[i]) # Range(cycles[j])

C6_Witness == Detected /\ Len(cycles) >= 2

\* C7: has_cycles() answers whether the recorded list is non-empty, which is
\* so exactly when the graph has a directed cycle (self-loops included); the
\* three queries answer from the list detect_cycles records, whether they had
\* to run it themselves or not.
C7_HasCyclesIffCyclic ==
    Detected =>
        /\ ret.value = Answer(IF ret.method = "detect_cycles" THEN "get_cycles" ELSE ret.method,
                              cycles)
        /\ (Len(cycles) > 0) <=> GraphHasCycle
        /\ ret.method = "has_cycles" => (ret.value <=> GraphHasCycle)
        /\ ret.method = "get_cycle_count" => ((ret.value > 0) <=> GraphHasCycle)

C7_Witness ==
    /\ Detected /\ ret.method = "has_cycles" /\ ret.value
    /\ \E n \in nodes : Edge(n, n)

\* C8: detect_cycles terminates: no node is expanded twice, a run makes at
\* most one _dfs call per node and per adjacency entry, no exception leaves
\* it, and when it has returned the recursion stack is empty and every node
\* is visited.
C8_Terminates ==
    /\ caller # "crashed"
    /\ \A n \in nodes : expanded[n] <= 1
    /\ calls <= Cardinality(nodes) + Cardinality(EdgePairs)
    /\ Detected => recursion_stack = {} /\ visited = nodes /\ frames = <<>>

C8_Witness ==
    /\ Detected /\ Len(cycles) >= 2 /\ \E n \in nodes : Edge(n, n)
    /\ calls = Cardinality(nodes) + Cardinality(EdgePairs)

\* C9: for a graph whose only edge is a self-import a -> a, one cycle is
\* returned: the closed walk a -> a of length 1, whose only node is a.
OnlyEdgeIsSelfImport(a) == \A u \in nodes, v \in nodes : Edge(u, v) <=> (u = a /\ v = a)

RECURSIVE UndirectedClosure(_)
UndirectedClosure(S) ==
    LET more == S \cup {n \in nodes : \E m \in S : Edge(m, n) \/ Edge(n, m)} IN
    IF more = S THEN S ELSE UndirectedClosure(more)

C12_ResolvedIsNotExternal ==
    phase = "built" =>
        LET r == _build_module_map(fs) IN
        \A i \in DOMAIN parsed_files :
            LET f == parsed_files[i].file
                refs == get_imports(TheParser, f)
            IN  \A k \in DOMAIN refs :
                    LET name == refs[k][1]
                        target == resolve_import(r, name, f)
                    IN  (target # None /\ name[1] \notin stdlib_modules) =>
                            /\ ~is_external_import(r, name)
                            /\ <<f, target>> \in EdgePairs

\* the least path of a non-empty set
Least(S) == CHOOSE x \in S : \A y \in S : ~PathLess(y, x)

\* the cycles detect_cycles records when every set is iterated in ascending
\* path order: d is the detector, rest what is left of the loop over the nodes
RECURSIVE RunAscending(_, _)
RunAscending(d, rest) ==
    IF d.frames # <<>>
    THEN LET top == d.frames[Len(d.frames)] IN
         IF top.pending = {} THEN RunAscending(_dfs_return(d), rest)
         ELSE LET neighbor == Least(top.pending) IN
              RunAscending(_dfs([d EXCEPT !.frames[Len(d.frames)].pending = @ \ {neighbor}],
                                neighbor, top.path), rest)
    ELSE IF rest = {} THEN d.cycles
    ELSE LET node == Least(rest) IN
         IF node \in d.visited THEN RunAscending(d, rest \ {node})
         ELSE RunAscending(_dfs(d, node, <<>>), rest \ {node})

\* C16: the list detect_cycles returns is the same for every order in which
\* the node set and the neighbour sets are iterated: it is the list the
\* ascending order gives.
C16_OutputIsFunctionOfGraph ==
    Detected => cycles = RunAscending(Reset("detect_cycles"), get_all_nodes(TheGraph))

\* the lines of the map that print a node, in the tree or in the trailing
\* section
MapLines == output.value

PrintsNode(line, n) ==
    \/ line.kind = "tree" /\ line.text.node = n
    \/ line.kind = "isolated" /\ line.node = n

MapReturned == output # None /\ output.method = "generate_ascii_map"

\* C18: every node is printed on at most one line of the map.
C18_PrintedAtMostOnce ==
    MapReturned =>
        \A n \in nodes :
            Cardinality({i \in DOMAIN MapLines : PrintsNode(MapLines[i], n)}) <= 1

\* C19: every isolated module is listed in the trailing ISOLATED MODULES
\* section.
C19_IsolatedAreListed ==
    MapReturned =>
        \A n \in get_isolated_nodes(TheGraph) :
            \E i \in DOMAIN MapLines :
                /\ MapLines[i].kind = "isolated" /\ MapLines[i].node = n
                /\ \E j \in 1..(i - 1) : MapLines[j].kind = "isolated_header"

\* the nodes at most k edges away from a node of S
RECURSIVE Within(_, _)
Within(S, k) ==
    IF k = 0 THEN S
    ELSE Within(S \cup UNION {Get(outgoing, n, {}) : n \in S}, k - 1)

\* C20: every module at most max_depth edges away from a root node appears
\* in the map; for the chain a -> b -> c and max_depth 2 these are a, b, c.
C20_ShownWithinDepth ==
    MapReturned =>
        \A n \in Within(get_root_nodes(TheGraph), output.max_depth) :
            \E i \in DOMAIN MapLines : PrintsNode(MapLines[i], n)

\* the str() of a project file without its ".py": the first of the two
\* segments str(path).split('.') gives
StrNoSuffix(file_path) ==
    CASE file_path = <<"a">> -> "/root/a"
      [] file_path = <<"b">> -> "/root/b"
      [] OTHER -> "/root/env/c"

\* C13: resolving the path a name resolved to, from the same importing file,
\* gives that path again.
C13_ResolverIdempotent ==
    phase = "built" =>
        LET r == _build_module_map(fs) IN
        \A i \in DOMAIN parsed_files :
            LET f == parsed_files[i].file
                refs == get_imports(TheParser, f)
            IN  \A k \in DOMAIN refs :
                    LET target == resolve_import(r, refs[k][1], f) IN
                    target # None =>
                        resolve_import(r, <<StrNoSuffix(target), "py">>, f) = target

\* the step is a call parse_file(path) / parse_directory(...)
ParseFileStep(path) ==
    fs' = fs /\ output' # None /\ output'.method = "parse_file" /\ output'.file_path = path

ParseDirectoryStep == fs' = fs /\ output' # None /\ output'.method = "parse_directory"

CacheEntry(file) ==
    <<{e \in Range(parsed_files) : e.file = file}, Get(file_imports, file, None),
      Get(file_exports, file, None), Get(file_lines, file, None)>>

\* C14: parse_file on a file that is already in the cache returns the cached
\* tree and leaves the four caches as they are.
C14_SecondParseIsCached ==
    [][\A path \in ParserPaths :
           LET file == _normalize_path(path) IN
           (ParseFileStep(path) /\ \E e \in Range(parsed_files) : e.file = file) =>
               /\ output'.value = Some((CHOOSE e \in Range(parsed_files) : e.file = file).tree)
               /\ TheParser' = TheParser]_vars

\* the file cannot be parsed: it is missing, undecodable or malformed
Unparsable(file) == file \notin DOMAIN fs \/ fs[file].status # "ok"

C11_EntryPointFallbacks ==
    (dpc = "done" /\ given = None) =>
        LET found == {n \in nodes : LooksLikeEntryPoint(n)}
            roots == {n \in nodes : Get(incoming, n, {}) = {}}
        IN  /\ found # {} => Range(entry_points) = found
            /\ (found = {} /\ roots # {}) => Range(entry_points) = roots
            /\ (found = {} /\ roots = {}) =>
                   /\ Range(entry_points) = nodes
                   /\ unused_modules = {}
                   /\ unused_exports = EmptyDict

C11_Witness ==
    /\ dpc = "done" /\ given = None /\ Cardinality(nodes) >= 2
    /\ \A n \in nodes : ~LooksLikeEntryPoint(n) /\ Get(incoming, n, {}) # {}
    /\ Range(entry_points) = nodes
    /\ \A n \in nodes : get_exports(TheParser, n) # {}

\* C17: once the graph is built, no step of detect_cycles, detect_dead_code,
\* analyze_all_modules, get_oversized_modules, suggest_splits,
\* generate_ascii_map, generate_summary or the root, leaf and isolated
\* queries changes nodes, edges, incoming, outgoing or node_metadata; in
\* particular none inserts an adjacency entry.
C17_GraphIsReadOnly ==
    [][/\ graphVars' = graphVars
       /\ DOMAIN incoming' = DOMAIN incoming
       /\ DOMAIN outgoing' = DOMAIN outgoing]_vars

\* get_isolated_nodes has returned on a graph that has a node without
\* adjacency entries
C17_Witness ==
    /\ output # None /\ output.method = "get_isolated_nodes"
    /\ \E node \in nodes : node \notin DOMAIN incoming /\ node \notin DOMAIN outgoing

\* a node lies on a directed cycle: it reaches itself along one edge or more
InCycle(node) == node \in Descendants(Get(outgoing, node, {}))

DotWritten == IF output = None THEN FALSE ELSE output.method = "export_graphviz"

\* C21: with cycle highlighting on, a node line is red and bold exactly
\* when its node lies on a directed cycle, and an edge line is bold red
\* when both its nodes lie on a cycle and gray otherwise.
C21_RedIffInCycle ==
    (DotWritten /\ output.highlight_cycles) =>
        \A i \in DOMAIN output.value :
            LET line == output.value[i] IN
            /\ line.kind = "node" =>
                   ((line.color = "red" /\ line.style = "rounded, bold") <=> InCycle(line.node))
            /\ line.kind = "edge" =>
                   IF InCycle(line.from_node) /\ InCycle(line.to_node)
                   THEN line.style = "bold" /\ line.color = "red"
                   ELSE line.color = "gray"

DynCalled == IF output = None THEN FALSE ELSE output.method = "detect_dynamic_imports"

\* every record held after the call: the list returned and the lists kept
\* for the files
RecordsOf(file_path) ==
    Range(get_dynamic_imports(dynamic_imports, file_path))
        \cup (IF DynCalled /\ output.file_path = file_path /\ output.value # None
              THEN Range(output.value[1]) ELSE {})

AttributeCallOn(stmt, id, attr) ==
    /\ stmt.kind = "Call" /\ stmt.func.kind = "Attribute" /\ stmt.func.attr = attr
    /\ stmt.func.value.kind = "Name" /\ stmt.func.value.id = id

Matching(tree) ==
    {i \in DOMAIN tree :
        /\ tree[i].kind = "Call"
        /\ \/ tree[i].func.kind = "Name" /\ tree[i].func.id \in {"__import__", "eval"}
           \/ AttributeCallOn(tree[i], "importlib", "import_module")
           \/ AttributeCallOn(tree[i], "builtins", "__import__")}

\* C24: detect_dynamic_imports returns without raising; for the one call
\* importlib.import_module('x') it returns the one record of that line with
\* the pattern importlib.import_module(); each matching call site has
\* exactly one record; a tree without one gives the empty list and no entry
\* in dynamic_imports.
C24_OneRecordPerCallSite ==
    DynCalled =>
        /\ ~output.raised
        /\ output.value # None
        /\ LET tree == output.tree
               issues == output.value[1]
           IN  /\ tree = <<CallStmt(AttributeExpr(NameExpr("importlib"), "import_module"))>>
                      => issues = <<Issue(1, "importlib.import_module()")>>
               /\ \A i \in DOMAIN tree :
                      Cardinality({k \in DOMAIN issues : issues[k].line = i})
                          = (IF i \in Matching(tree) THEN 1 ELSE 0)
               /\ Matching(tree) = {}
                      => issues = <<>> /\ output.file_path \notin DOMAIN dynamic_imports

SplitsReturned == IF output = None THEN FALSE ELSE output.method = "suggest_splits"

\* the types of the suggestions returned for a file
SuggestedTypes(file_path) ==
    UNION {{e.suggestions[k].type : k \in DOMAIN e.suggestions} :
               e \in {x \in Range(output.value) : x.file_path = file_path}}

HasEntry(file_path) == \E e \in Range(output.value) : e.file_path = file_path

IsParsed(file_path) == \E e \in Range(parsed_files) : e.file = file_path

TreeOf(file_path) == (CHOOSE e \in Range(parsed_files) : e.file = file_path).tree

ClassNames(file_path) == NamesOf(TreeOf(file_path), "class")

FunctionNames(file_path) == NamesOf(TreeOf(file_path), "def")

\* every name has an underscore and the same characters before the first one
OnePrefix(names) ==
    \A i, j \in DOMAIN names :
        /\ \E k \in DOMAIN names[i] : names[i][k] = "_"
        /\ _get_prefix(names[i]) = _get_prefix(names[j])

\* C22: a module of at least min_lines lines with no class and 15 functions
\* that all carry the same prefix before the first underscore gets both a
\* function_grouping and a utility_split suggestion.
C22_OnePrefixUtilityModule ==
    SplitsReturned =>
        \A file_path \in nodes :
            (/\ IsParsed(file_path)
             /\ file_lines[file_path] >= output.min_lines
             /\ Len(ClassNames(file_path)) = 0
             /\ Len(FunctionNames(file_path)) = 15
             /\ Len(FunctionNames(file_path)) >= output.min_functions
             /\ OnePrefix(FunctionNames(file_path)))
                => {"function_grouping", "utility_split"} \subseteq SuggestedTypes(file_path)

\* C28: a file whose line count does not exceed min_lines has no entry in
\* the suggestions.
C28_OnlyFilesOverMinLines ==
    SplitsReturned =>
        \A file_path \in nodes :
            file_lines[file_path] <= output.min_lines => ~HasEntry(file_path)

\* the groups of _group_classes that have more than one class
NonSingletonGroups(names) ==
    {k \in DOMAIN _group_classes(names) : Cardinality(_group_classes(names)[k]) > 1}

\* C29: an analysed module gets a class_grouping suggestion exactly when it
\* has at least 3 top-level classes and more than one group of two or more
\* classes sharing a lower-case prefix of 3 characters.
C29_ClassGroupingNeedsGroups ==
    SplitsReturned =>
        \A file_path \in nodes :
            (IsParsed(file_path) /\ file_lines[file_path] > output.min_lines)
                => ("class_grouping" \in SuggestedTypes(file_path)
                       <=> /\ Len(ClassNames(file_path)) >= 3
                           /\ Cardinality(NonSingletonGroups(ClassNames(file_path))) > 1)

\* the nodes of a recorded cycle in the order of their first appearance
RECURSIVE FirstAppearances(_)
FirstAppearances(cycle) ==
    IF cycle = <<>> THEN <<>>
    ELSE LET front == FirstAppearances(SubSeq(cycle, 1, Len(cycle) - 1))
             last == cycle[Len(cycle)]
         IN  IF last \in Range(front) THEN front ELSE Append(front, last)

\* what _dfs records for the same loop when the search enters it at the
\* first node of the recorded cycle
EnteredAtFirst(cycle) ==
    NormalizedCycle(FirstAppearances(cycle), FirstAppearances(cycle)[1])

\* C25: a recorded cycle starts with the least node of its loop and is the
\* same node sequence at whichever node the search entered the loop: it is
\* the sequence recorded when the loop is entered at its least node.
C25_CanonicalRotation ==
    \A i \in DOMAIN cycles :
        /\ \A node \in Range(cycles[i]) : ~PathLess(node, cycles[i][1])
        /\ cycles[i] = EnteredAtFirst(cycles[i])

\* the number of edges from_file -> to_file in the edge list
EdgeCount(from_file, to_file) ==
    Cardinality({i \in DOMAIN edges : edges[i][1] = from_file /\ edges[i][2] = to_file})

\* the number of import references of from_file that resolve to to_file
ReferenceCount(r, from_file, to_file) ==
    LET refs == get_imports(TheParser, from_file) IN
    Cardinality({k \in DOMAIN refs : resolve_import(r, refs[k][1], from_file) = to_file})

\* C26: after the build, a file with k >= 1 import references resolving to
\* the same project file has k edges for that pair in the edge list, while
\* the importer's fan_out and the target's fan_in count that neighbour once;
\* fan_in = |get_dependents| and fan_out = |get_dependencies| for every node.
C26_ParallelEdgesCountedOnce ==
    phase = "built" =>
        LET r == _build_module_map(fs) IN
        /\ \A i \in DOMAIN parsed_files : \A to_file \in nodes :
               LET from_file == parsed_files[i].file
                   k == ReferenceCount(r, from_file, to_file)
               IN  k >= 1 =>
                       /\ EdgeCount(from_file, to_file) = k
                       /\ to_file \in get_dependencies(TheGraph, from_file)
                       /\ from_file \in get_dependents(TheGraph, to_file)
        /\ \A node \in nodes :
               LET m == _analyze_module(TheGraph, TheParser, node) IN
               /\ m.fan_in = Cardinality(get_dependents(TheGraph, node))
               /\ m.fan_out = Cardinality(get_dependencies(TheGraph, node))
               /\ m.fan_out = Cardinality({e[2] : e \in {x \in EdgePairs : x[1] = node}})
               /\ m.fan_in = Cardinality({e[1] : e \in {x \in EdgePairs : x[2] = node}})

\* the metric part of C26 alone, on a pair with parallel edges
C26_MetricsPart ==
    (phase = "built" /\ \E f, t \in nodes : EdgeCount(f, t) >= 2) =>
        \A node \in nodes :
            LET m == _analyze_module(TheGraph, TheParser, node) IN
            /\ m.fan_out = Cardinality({e[2] : e \in {x \in EdgePairs : x[1] = node}})
            /\ m.fan_in = Cardinality({e[1] : e \in {x \in EdgePairs : x[2] = node}})

C26_ParallelSeen == phase = "built" /\ \E f, t \in nodes : EdgeCount(f, t) >= 2

\* a list of (path, count) pairs is in descending order of count with equal
\* counts in ascending order of path
SortedDescThenPath(list) ==
    \A i, j \in DOMAIN list :
        i < j => \/ list[i][2] > list[j][2]
                 \/ list[i][2] = list[j][2] /\ PathLess(list[i][1], list[j][1])

ListReturned ==
    IF output = None THEN FALSE
    ELSE output.method \in {"get_oversized_modules", "get_highly_coupled_modules"}

\* C27: the lists returned by get_oversized_modules and
\* get_highly_coupled_modules are in descending order of the metric, entries
\* with equal metric in ascending path order, whatever the order in which
\* the metrics dictionary was filled.
C27_SortedDescTiesByPath == ListReturned => SortedDescThenPath(output.value)

\* the descending order alone
C27_DescendingPart ==
    ListReturned =>
        \A i, j \in DOMAIN output.value : i < j => output.value[i][2] >= output.value[j][2]

\* the number of characters of a line of the map: "DEPENDENCY MAP" has 14,
\* "ISOLATED MODULES:" 17, a branch mark and its space 3
LineLen(line) ==
    CASE line.kind = "rule" -> line.width
      [] line.kind = "title" -> 14
      [] line.kind = "blank" -> 0
      [] line.kind = "isolated_header" -> 17
      [] line.kind = "isolated" -> 2 + RelPathLen(line.node)
      [] line.kind = "tree" ->
             2 * line.indent + 3 + line.text.kept + (IF line.text.dots THEN 3 ELSE 0)

MapOfWidthReturned ==
    IF output = None THEN FALSE
    ELSE output.method = "generate_ascii_map" /\ "max_width" \in DOMAIN output

\* C30: in the returned map every tree line is indented at most max_depth
\* levels and every line has at most max_width characters, for every
\* max_depth >= 0 and every max_width.
C30_DepthAndWidthBounded ==
    MapOfWidthReturned =>
        \A i \in DOMAIN output.value :
            LET line == output.value[i] IN
            /\ line.kind = "tree" => line.indent <= output.max_depth
            /\ LineLen(line) <= output.max_width

\* the indentation part alone
C30_DepthPart ==
    MapOfWidthReturned =>
        \A i \in DOMAIN output.value :
            output.value[i].kind = "tree" => output.value[i].indent <= output.max_depth

\* the width part where no slice index is negative and the title fits
C30_WidthPart ==
    (MapOfWidthReturned /\ output.max_width >= 2 * output.max_depth + 7
                        /\ output.max_width >= 14) =>
        \A i \in DOMAIN output.value : LineLen(output.value[i]) <= output.max_width

====
